---------------------------- MODULE Spec2Model ----------------------------
(***************************************************************************)
(* A model of the data pipeline of src/app.py (UAE Promo Pulse dashboard): *)
(* the sample-data generator, the CSV loader, the apply-fixes cleaner, the *)
(* KPI engine, the promotion simulator and the reorder calculator.         *)
(*                                                                         *)
(* Values.  A numeric cell is a rational <<n, d>> with d >= 1 in lowest    *)
(* terms, the missing value NaN / NaT / None is Null == <<>>, and a cell   *)
(* that read_csv left as non-numeric text is Text == <<0, 0>>.  A missing  *)
(* string cell is NA.  A timestamp is <<t>> with t counted in half days    *)
(* (so that Timedelta.days rounds down), NaT is Null.                      *)
(* A DataFrame is [cols |-> set of column names, rows |-> sequence of      *)
(* records]; Python's None is the record None.                             *)
(***************************************************************************)
EXTENDS Integers, Sequences, FiniteSets, TLC

\* ------------------------------------------------------------------ bounds
\* Rows of a sales table drawn in Init or by the user.
MaxSales == 2
\* Rows of an inventory table.
MaxInventory == 2
\* Rows of the sales, products and inventory tables handed to the cleaner.
MaxCleanSales == 3
MaxCleanProducts == 3
MaxCleanInventory == 2
\* Rows of the sales and inventory tables handed to the reorder analysis.
MaxReorderSales == 3
MaxReorderInventory == 2
\* Rows of the sales table handed to the simulator and to the KPI function.
MaxSimSales == 2
MaxKpiSales == 2
MaxMetricsSales == 2
\* Rows of the inventory table handed to the inventory tab.
MaxSnapshotRows == 2

\* ------------------------------------------------------------------ values
Null == <<>>
Text == <<0, 0>>
NA == "<NA>"
None == [none |-> TRUE]

IsNull(x) == x = Null
IsText(x) == x = Text
IsNum(x) == x # Null /\ x # Text

Abs(n) == IF n < 0 THEN -n ELSE n

RECURSIVE GCD(_, _)
GCD(a, b) == IF b = 0 THEN a ELSE GCD(b, a % b)

\* n/d in lowest terms with a positive denominator.
Rat(n, d) ==
    LET s == IF d < 0 THEN -1 ELSE 1
        g == GCD(Abs(n), Abs(d))
    IN  <<(s * n) \div g, (s * d) \div g>>

Int2Rat(n) == <<n, 1>>

\* float arithmetic: NaN is absorbing.  Common factors are taken out
\* before the products are formed, which keeps the integers small.
RAdd(a, b) == IF IsNull(a) \/ IsNull(b) THEN Null
              ELSE LET g == GCD(a[2], b[2])
                   IN  Rat(a[1] * (b[2] \div g) + b[1] * (a[2] \div g),
                           (a[2] \div g) * b[2])
RSub(a, b) == IF IsNull(a) \/ IsNull(b) THEN Null
              ELSE RAdd(a, <<-b[1], b[2]>>)
RMul(a, b) == IF IsNull(a) \/ IsNull(b) THEN Null
              ELSE LET g == GCD(Abs(a[1]), b[2])
                       h == GCD(Abs(b[1]), a[2])
                   IN  Rat((a[1] \div g) * (b[1] \div h),
                           (a[2] \div h) * (b[2] \div g))
\* The callers guard b # 0; 0/0 is NaN.
RDiv(a, b) == IF IsNull(a) \/ IsNull(b) \/ b[1] = 0 THEN Null
              ELSE RMul(a, Rat(b[2], b[1]))
\* Comparisons with NaN are False.
RLe(a, b) == ~IsNull(a) /\ ~IsNull(b) /\ a[1] * b[2] <= b[1] * a[2]
RLt(a, b) == ~IsNull(a) /\ ~IsNull(b) /\ a[1] * b[2] < b[1] * a[2]
RGt(a, b) == RLt(b, a)

Zero == Int2Rat(0)

\* Series.sum(): NaN cells are skipped, the empty sum is 0.
RECURSIVE RSum(_)
RSum(s) == IF s = <<>> THEN Zero
           ELSE IF IsNull(Head(s)) THEN RSum(Tail(s))
           ELSE RAdd(Head(s), RSum(Tail(s)))

NotNull(s) == SelectSeq(s, LAMBDA x: ~IsNull(x))

\* Series.mean(): the mean of the non-null cells, NaN when there is none.
RMean(s) == IF NotNull(s) = <<>> THEN Null
            ELSE RDiv(RSum(s), Int2Rat(Len(NotNull(s))))

\* Column c of a sequence of rows.
Col(rows, c) == [i \in 1..Len(rows) |-> rows[i][c]]

Range(s) == {s[i] : i \in 1..Len(s)}

\* Timedelta.days of a difference counted in half days.
days(delta) == delta \div 2

\* ------------------------------------------------------- module constants
\* The Cyrillic key of the source is left out: the module is ASCII.
CITY_MAPPING ==
    ("dubai" :> "Dubai") @@ ("DUBAI" :> "Dubai") @@ ("Dubayy" :> "Dubai") @@
    ("DXB" :> "Dubai") @@
    ("abu dhabi" :> "Abu Dhabi") @@ ("ABU DHABI" :> "Abu Dhabi") @@
    ("AbuDhabi" :> "Abu Dhabi") @@ ("AD" :> "Abu Dhabi") @@
    ("Abudhabi" :> "Abu Dhabi") @@
    ("sharjah" :> "Sharjah") @@ ("SHARJAH" :> "Sharjah") @@
    ("Shj" :> "Sharjah") @@ ("Sharijah" :> "Sharjah") @@
    ("Al Sharjah" :> "Sharjah")

STANDARD_CITIES == {"Dubai", "Abu Dhabi", "Sharjah"}

EXPECTED_COLUMNS ==
    [products |-> {"product_id", "category", "brand", "base_price_aed",
                   "unit_cost_aed", "tax_rate", "launch_flag"},
     stores |-> {"store_id", "city", "channel", "fulfillment_type"},
     sales |-> {"order_id", "order_time", "product_id", "store_id", "qty",
                "selling_price_aed", "discount_pct", "payment_status",
                "return_flag"},
     inventory |-> {"snapshot_date", "product_id", "store_id",
                    "stock_on_hand", "reorder_point", "lead_time_days"},
     campaigns |-> {"campaign_id", "start_date", "end_date", "city",
                    "channel", "category", "discount_pct",
                    "promo_budget_aed"}]

\* The poison values the generator writes into order_time.
CORRUPTED_TIMESTAMPS ==
    {"not_a_time", "NULL", "N/A", "00/00/0000", "2024-13-45 99:99:99",
     "invalid_date", "", "NaT"}

\* The well-formed timestamp texts of the model, one per half day.
TimeText ==
    <<"2024-01-01 00:00:00", "2024-01-01 12:00:00", "2024-01-02 00:00:00",
      "2024-01-02 12:00:00", "2024-01-03 00:00:00", "2024-01-03 12:00:00",
      "2024-01-04 00:00:00", "2024-01-04 12:00:00">>

\* The date-only texts, one per day.
DateText ==
    <<"2024-01-01", "2024-01-02", "2024-01-03", "2024-01-04", "2024-01-05",
      "2024-01-06", "2024-01-07", "2024-01-08", "2024-01-09", "2024-01-10",
      "2024-01-11", "2024-01-12", "2024-01-13", "2024-01-14", "2024-01-15",
      "2024-01-16", "2024-01-17", "2024-01-18", "2024-01-19", "2024-01-20",
      "2024-01-21", "2024-01-22", "2024-01-23", "2024-01-24", "2024-01-25",
      "2024-01-26", "2024-01-27", "2024-01-28", "2024-01-29", "2024-01-30",
      "2024-01-31">>

\* strftime('%Y-%m-%d %H:%M:%S') and strftime('%Y-%m-%d') of half day t.
strftime(t) == TimeText[t + 1]
strftime_date(t) == DateText[(t \div 2) + 1]

\* pd.to_datetime(text, errors='coerce'): the timestamp a well-formed text
\* denotes (midnight for a date-only text), NaT for every other text.
to_datetime(s) ==
    IF \E i \in 1..Len(TimeText) : TimeText[i] = s
    THEN <<(CHOOSE i \in 1..Len(TimeText) : TimeText[i] = s) - 1>>
    ELSE IF \E i \in 1..Len(DateText) : DateText[i] = s
    THEN <<2 * ((CHOOSE i \in 1..Len(DateText) : DateText[i] = s) - 1)>>
    ELSE Null

\* A replace that maps nothing.
replace_city_nothing(city) == city

\* Series.replace(CITY_MAPPING): a value that is a key becomes its image,
\* every other value (NaN included) stays.
replace_city(city) ==
    IF city \in DOMAIN CITY_MAPPING THEN CITY_MAPPING[city] ELSE city

\* city.replace(CITY_MAPPING) followed by .fillna(city).
city_clean_of(city) ==
    LET replaced == replace_city(city)
    IN  IF replaced = NA THEN city ELSE replaced


\* ------------------------------------------------------------- DataFrames
DataFrame(cols, rows) == [cols |-> cols, rows |-> rows]

NumericFields ==
    {"qty", "selling_price_aed", "discount_pct", "return_flag", "revenue",
     "base_price_aed", "unit_cost_aed", "stock_on_hand", "reorder_point",
     "lead_time_days", "promo_budget_aed", "order_time", "snapshot_date",
     "start_date", "end_date", "duration_days"}

\* The missing value of a column: NaN / NaT for numbers and times, NA else.
NullOf(f) == IF f \in NumericFields THEN Null ELSE NA

\* A column that holds a non-numeric text is read as dtype object, and then
\* every non-null cell of it is a Python str.
HasText(rows, c) == \E i \in 1..Len(rows) : IsText(rows[i][c])
IsStr(rows, c, i) == HasText(rows, c) /\ ~IsNull(rows[i][c])
\* Without text, a column of integers without a gap is int64, else float64.
IsIntCol(rows, c) ==
    \A i \in 1..Len(rows) : IsNum(rows[i][c]) /\ rows[i][c][2] = 1
IsFloatCol(rows, c) == ~HasText(rows, c) /\ ~IsIntCol(rows, c)

\* One row of left.merge(right[addcols + key], on=key, how='left').
MergedRow(r, p, addcols) ==
    [f \in DOMAIN r |-> IF f \in addcols THEN p[f] ELSE r[f]]
UnmatchedRow(r, addcols) ==
    [f \in DOMAIN r |-> IF f \in addcols THEN NullOf(f) ELSE r[f]]

\* left.merge(right, on=key, how='left'): the left rows in order, each once
\* per right row with the same key, or once with missing values.
RECURSIVE merge_left(_, _, _, _)
merge_left(left, right, key, addcols) ==
    IF left = <<>> THEN <<>>
    ELSE LET r == Head(left)
             m == SelectSeq(right, LAMBDA p : p[key] = r[key])
             here == IF m = <<>> THEN <<UnmatchedRow(r, addcols)>>
                     ELSE [i \in 1..Len(m) |-> MergedRow(r, m[i], addcols)]
         IN  here \o merge_left(Tail(left), right, key, addcols)

\* ------------------------------------------------------------ stock status
\* The lambda of generate_sample_data.
stock_status_generated(stock_on_hand, reorder_point) ==
    IF RLe(stock_on_hand, Zero) THEN "Critical"
    ELSE IF RLe(stock_on_hand, reorder_point) THEN "Low"
    ELSE "Healthy"

\* The lambda of load_and_process_data, a mutant of it first.
stock_status_strict(stock_on_hand, reorder_point) ==
    IF RLt(stock_on_hand, Zero) THEN "Critical"
    ELSE IF RLe(stock_on_hand, reorder_point) THEN "Low"
    ELSE "Healthy"

stock_status_loaded(stock_on_hand, reorder_point) ==
    IF RLe(stock_on_hand, Zero) THEN "Critical"
    ELSE IF RLe(stock_on_hand, reorder_point) THEN "Low"
    ELSE "Healthy"

is_negative_of(stock_on_hand) == RLt(stock_on_hand, Zero)
is_extreme_of(stock_on_hand) == RGt(stock_on_hand, Int2Rat(9000))

\* ------------------------------------------------------------------ loader
\* qty * selling_price_aed of one row.  Between a str and a float, or two
\* strs, Python raises TypeError; a str times an int is the str repeated.
revenue_raises(rows) ==
    \E i \in 1..Len(rows) :
        /\ ~IsNull(rows[i].qty) /\ ~IsNull(rows[i].selling_price_aed)
        /\ \/ IsStr(rows, "qty", i) /\ IsStr(rows, "selling_price_aed", i)
           \/ IsStr(rows, "qty", i) /\ IsFloatCol(rows, "selling_price_aed")
           \/ IsStr(rows, "selling_price_aed", i) /\ IsFloatCol(rows, "qty")

\* The selling price alone, the quantity left out: a mutant.
revenue_of_one_unit(rows, i) ==
    IF IsNull(rows[i].qty) \/ IsNull(rows[i].selling_price_aed) THEN Null
    ELSE rows[i].selling_price_aed

revenue_of(rows, i) ==
    IF IsNull(rows[i].qty) \/ IsNull(rows[i].selling_price_aed) THEN Null
    ELSE IF IsStr(rows, "qty", i) \/ IsStr(rows, "selling_price_aed", i)
         THEN Text
    ELSE RMul(rows[i].qty, rows[i].selling_price_aed)

\* The stock_status lambda applied to every row: a str compared with a
\* number raises TypeError; reorder_point is read only when stock_on_hand
\* is not <= 0.
reads_reorder_point(rows, i) == ~RLe(rows[i].stock_on_hand, Zero)

stock_status_raises(rows) ==
    \E i \in 1..Len(rows) :
        \/ IsStr(rows, "stock_on_hand", i)
        \/ reads_reorder_point(rows, i) /\ IsStr(rows, "reorder_point", i)

NoException == "<no exception>"

ProductMergeCols == {"category", "brand", "base_price_aed", "unit_cost_aed"}
StoreMergeCols == {"city", "channel", "fulfillment_type"}

\* str(e) of the first exception the try block of load_and_process_data
\* raises on these five files, NoException when it runs to its return.
load_exception(f) ==
    IF ~f.products.readable THEN "products.csv: parse error"
    ELSE IF ~f.stores.readable THEN "stores.csv: parse error"
    ELSE IF ~f.sales.readable THEN "sales_raw.csv: parse error"
    ELSE IF ~f.inventory.readable THEN "inventory_snapshot.csv: parse error"
    ELSE IF ~f.campaigns.readable THEN "campaign_plan.csv: parse error"
    ELSE IF "order_time" \notin f.sales.cols THEN "'order_time'"
    ELSE IF "qty" \notin f.sales.cols THEN "'qty'"
    ELSE IF "selling_price_aed" \notin f.sales.cols THEN "'selling_price_aed'"
    ELSE IF revenue_raises(f.sales.rows)
         THEN "can't multiply sequence by non-int of type 'float'"
    ELSE IF /\ "category" \notin f.sales.cols
            /\ ~((ProductMergeCols \cup {"product_id"}) \subseteq f.products.cols)
         THEN "products columns not in index"
    ELSE IF "category" \notin f.sales.cols /\ "product_id" \notin f.sales.cols
         THEN "'product_id'"
    ELSE IF /\ "city" \notin f.sales.cols
            /\ ~((StoreMergeCols \cup {"store_id"}) \subseteq f.stores.cols)
         THEN "stores columns not in index"
    ELSE IF "city" \notin f.sales.cols /\ "store_id" \notin f.sales.cols
         THEN "'store_id'"
    ELSE IF "snapshot_date" \notin f.inventory.cols THEN "'snapshot_date'"
    ELSE IF "stock_on_hand" \notin f.inventory.cols THEN "'stock_on_hand'"
    ELSE IF /\ "reorder_point" \notin f.inventory.cols
            /\ \E i \in 1..Len(f.inventory.rows) :
                   reads_reorder_point(f.inventory.rows, i)
         THEN "'reorder_point'"
    ELSE IF stock_status_raises(f.inventory.rows)
         THEN "'<=' not supported between instances of 'str' and 'int'"
    ELSE IF /\ "category" \notin f.inventory.cols
            /\ ~({"product_id", "category", "brand"} \subseteq f.products.cols)
         THEN "products columns not in index"
    ELSE IF /\ "category" \notin f.inventory.cols
            /\ "product_id" \notin f.inventory.cols
         THEN "'product_id'"
    ELSE IF /\ "city" \notin f.inventory.cols
            /\ ~((StoreMergeCols \cup {"store_id"}) \subseteq f.stores.cols)
         THEN "stores columns not in index"
    ELSE IF "city" \notin f.inventory.cols /\ "store_id" \notin f.inventory.cols
         THEN "'store_id'"
    ELSE IF "start_date" \notin f.campaigns.cols THEN "'start_date'"
    ELSE IF "end_date" \notin f.campaigns.cols THEN "'end_date'"
    ELSE IF "city" \notin f.stores.cols THEN "'city'"
    ELSE NoException

\* STEP 3: the sales frame.
process_sales(sales, products, stores) ==
    LET timed == [i \in 1..Len(sales.rows) |->
                    [sales.rows[i] EXCEPT
                        !.order_time = to_datetime(sales.rows[i].order_time),
                        !.revenue = revenue_of(sales.rows, i)]]
        withp == IF "category" \notin sales.cols
                 THEN merge_left(timed, products.rows, "product_id",
                                 ProductMergeCols)
                 ELSE timed
        colsp == IF "category" \notin sales.cols
                 THEN sales.cols \cup ProductMergeCols ELSE sales.cols
        withs == IF "city" \notin colsp
                 THEN merge_left(withp, stores.rows, "store_id", StoreMergeCols)
                 ELSE withp
        colss == IF "city" \notin colsp THEN colsp \cup StoreMergeCols ELSE colsp
    IN  DataFrame(colss \cup {"revenue", "city_clean"},
                  [i \in 1..Len(withs) |->
                      [withs[i] EXCEPT !.city_clean = city_clean_of(withs[i].city)]])

\* STEP 4: the inventory frame.
process_inventory(inventory, products, stores) ==
    LET flagged == [i \in 1..Len(inventory.rows) |->
                      LET r == inventory.rows[i]
                      IN  [r EXCEPT
                            !.snapshot_date = to_datetime(r.snapshot_date),
                            !.stock_status =
                                stock_status_loaded(r.stock_on_hand,
                                                    r.reorder_point),
                            !.is_negative = is_negative_of(r.stock_on_hand),
                            !.is_extreme = is_extreme_of(r.stock_on_hand)]]
        withp == IF "category" \notin inventory.cols
                 THEN merge_left(flagged, products.rows, "product_id",
                                 {"category", "brand"})
                 ELSE flagged
        colsp == IF "category" \notin inventory.cols
                 THEN inventory.cols \cup {"category", "brand"}
                 ELSE inventory.cols
        withs == IF "city" \notin colsp
                 THEN merge_left(withp, stores.rows, "store_id", StoreMergeCols)
                 ELSE withp
        colss == IF "city" \notin colsp THEN colsp \cup StoreMergeCols ELSE colsp
    IN  DataFrame(colss \cup {"stock_status", "is_negative", "is_extreme",
                              "city_clean"},
                  [i \in 1..Len(withs) |->
                      [withs[i] EXCEPT !.city_clean = city_clean_of(withs[i].city)]])

\* STEP 5: the campaigns frame; now is the clock reading, in half days.
process_campaigns(campaigns, now) ==
    DataFrame(campaigns.cols \cup {"duration_days", "is_active"},
              [i \in 1..Len(campaigns.rows) |->
                  LET r == campaigns.rows[i]
                      s == to_datetime(r.start_date)
                      e == to_datetime(r.end_date)
                  IN  [r EXCEPT
                        !.start_date = s, !.end_date = e,
                        !.duration_days =
                            IF IsNull(s) \/ IsNull(e) THEN Null
                            ELSE Int2Rat(days(e[1] - s[1])),
                        !.is_active =
                            /\ ~IsNull(s) /\ ~IsNull(e)
                            /\ s[1] <= now /\ e[1] >= now]])

\* STEP 6: the stores frame.
process_stores(stores) ==
    DataFrame(stores.cols \cup {"city_clean"},
              [i \in 1..Len(stores.rows) |->
                  [stores.rows[i] EXCEPT
                      !.city_clean = city_clean_of(stores.rows[i].city)]])

\* STEP 2: column names.  A header is a string; the ones below are taken
\* apart into their letters, word by word, with the blank and the underscore
\* as tokens of their own.  Every other header of the model is a single word
\* in lower case without blanks.
HeaderTokens ==
    "unit_cost_aed" :> <<"unit", "_", "cost", "_", "aed">>
    @@ "Unit_Cost_AED" :> <<"Unit", "_", "Cost", "_", "AED">>
    @@ " unit_cost_aed " :> <<" ", "unit", "_", "cost", "_", "aed", " ">>
    @@ "unit cost aed" :> <<"unit", " ", "cost", " ", "aed">>
    @@ " Unit Cost AED" :> <<" ", "Unit", " ", "Cost", " ", "AED">>
    @@ "unit_cost" :> <<"unit", "_", "cost">>
    @@ "qty" :> <<"qty">>
    @@ "QTY " :> <<"QTY", " ">>

tokens_of(h) == IF h \in DOMAIN HeaderTokens THEN HeaderTokens[h] ELSE <<h>>

\* The header with these tokens.
header_of(t) ==
    IF \E h \in DOMAIN HeaderTokens : HeaderTokens[h] = t
    THEN CHOOSE h \in DOMAIN HeaderTokens : HeaderTokens[h] = t
    ELSE t[1]

\* str.lower()
str_lower(t) ==
    [i \in 1..Len(t) |->
        CASE t[i] = "Unit" -> "unit"
          [] t[i] = "Cost" -> "cost"
          [] t[i] = "AED" -> "aed"
          [] t[i] = "QTY" -> "qty"
          [] OTHER -> t[i]]

\* str.strip()
RECURSIVE str_strip(_)
str_strip(t) ==
    IF t = <<>> THEN t
    ELSE IF Head(t) = " " THEN str_strip(Tail(t))
    ELSE IF t[Len(t)] = " " THEN str_strip(SubSeq(t, 1, Len(t) - 1))
    ELSE t

\* str.replace(' ', '_')
str_replace(t) == [i \in 1..Len(t) |-> IF t[i] = " " THEN "_" ELSE t[i]]

\* df.columns.str.lower().str.strip().str.replace(' ', '_')
normalize_column(h) == header_of(str_replace(str_strip(str_lower(tokens_of(h)))))

normalize_columns(file) == [file EXCEPT !.cols = {normalize_column(h) : h \in @}]

normalized(f) == [k \in DOMAIN f |-> normalize_columns(f[k])]

\* A loader that catches the error of each file on its own and returns the
\* tables that were read.
load_each_file(f, now) ==
    LET g == normalized(f)
    IN
        IF load_exception(g) # NoException
        THEN [products |-> IF g.products.readable
                           THEN DataFrame(g.products.cols, g.products.rows)
                           ELSE None,
              stores |-> IF g.stores.readable
                         THEN DataFrame(g.stores.cols, g.stores.rows) ELSE None,
              sales |-> None, inventory |-> None, campaigns |-> None,
              error |-> [msg |-> load_exception(g)]]
        ELSE [products |-> DataFrame(g.products.cols, g.products.rows),
              stores |-> process_stores(g.stores),
              sales |-> process_sales(g.sales, g.products, g.stores),
              inventory |-> process_inventory(g.inventory, g.products, g.stores),
              campaigns |-> process_campaigns(g.campaigns, now),
              error |-> None]

\* load_and_process_data: the six-element tuple it returns.
load_and_process_data(f, now) ==
    LET g == normalized(f)
    IN
        IF load_exception(g) # NoException
        THEN [products |-> None, stores |-> None, sales |-> None,
              inventory |-> None, campaigns |-> None,
              error |-> [msg |-> load_exception(g)]]
        ELSE [products |-> DataFrame(g.products.cols, g.products.rows),
              stores |-> process_stores(g.stores),
              sales |-> process_sales(g.sales, g.products, g.stores),
              inventory |-> process_inventory(g.inventory, g.products, g.stores),
              campaigns |-> process_campaigns(g.campaigns, now),
              error |-> None]

\* -------------------------------------------------------------------- rows
ProductRow(id, category, brand, base, cost, flag) ==
    [product_id |-> id, category |-> category, brand |-> brand,
     base_price_aed |-> base, unit_cost_aed |-> cost, launch_flag |-> flag]

StoreRow(id, city, channel, fulfillment) ==
    [store_id |-> id, city |-> city, channel |-> channel,
     fulfillment_type |-> fulfillment, city_clean |-> NA]

\* A sales row as read from the file: the derived columns are not there yet.
SalesRow(id, time, product, store, qty, price, discount, status, flag) ==
    [order_id |-> id, order_time |-> time, product_id |-> product,
     store_id |-> store, qty |-> qty, selling_price_aed |-> price,
     discount_pct |-> discount, payment_status |-> status,
     return_flag |-> flag, revenue |-> Null, category |-> NA, brand |-> NA,
     base_price_aed |-> Null, unit_cost_aed |-> Null, city |-> NA,
     channel |-> NA, fulfillment_type |-> NA, city_clean |-> NA]

InventoryRow(date, product, store, stock, reorder, lead) ==
    [snapshot_date |-> date, product_id |-> product, store_id |-> store,
     stock_on_hand |-> stock, reorder_point |-> reorder,
     lead_time_days |-> lead, stock_status |-> NA, is_negative |-> FALSE,
     is_extreme |-> FALSE, category |-> NA, brand |-> NA, city |-> NA,
     channel |-> NA, fulfillment_type |-> NA, city_clean |-> NA]

CampaignRow(id, start, end, city, channel, category, discount, budget) ==
    [campaign_id |-> id, start_date |-> start, end_date |-> end,
     city |-> city, channel |-> channel, category |-> category,
     discount_pct |-> discount, promo_budget_aed |-> budget,
     duration_days |-> Null, is_active |-> FALSE]

\* --------------------------------------------------------------- generator
CITIES == <<"Dubai", "Abu Dhabi", "Sharjah">>

INCONSISTENT_CITIES ==
    [c \in Range(CITIES) |->
        CASE c = "Dubai" -> {"Dubai", "DUBAI", "dubai", "Dubayy", "DXB"}
          [] c = "Abu Dhabi" ->
                 {"Abu Dhabi", "ABU DHABI", "abu dhabi", "AbuDhabi", "AD"}
          [] c = "Sharjah" ->
                 {"Sharjah", "SHARJAH", "sharjah", "Shj", "Sharijah"}]

GenStoreIds == [c \in Range(CITIES) |->
                  CASE c = "Dubai" -> "STORE_001"
                    [] c = "Abu Dhabi" -> "STORE_002"
                    [] c = "Sharjah" -> "STORE_003"]

\* The tables before post-processing.  The draws d are what random and
\* np.random return in one run; the loops are cut to one store per city, two
\* products, one order and one inventory row, and an injection either hits
\* the row or leaves it.  today is the clock reading, in half days.
generated_products ==
    DataFrame(EXPECTED_COLUMNS.products,
              <<ProductRow("PROD_00001", "Electronics", "Samsung",
                           Int2Rat(100), Int2Rat(55), "Regular"),
                ProductRow("PROD_00002", "Fashion", "Zara",
                           Int2Rat(50), Null, "New")>>)

generated_stores(d) ==
    DataFrame(EXPECTED_COLUMNS.stores,
              [i \in 1..Len(CITIES) |->
                  StoreRow(GenStoreIds[CITIES[i]], d.city_value[CITIES[i]],
                           "App", "Own")])

\* selling_price = round(base_price * (1 - discount_pct / 100), 2)
generated_price(base_price, discount_pct) ==
    RMul(base_price, RSub(Int2Rat(1), Rat(discount_pct, 100)))

\* TODAY = datetime.now() at midnight; HISTORICAL_START = TODAY - 120 days,
\* the history cut to one day.
TODAY(now) == 2 * (now \div 2)
HISTORICAL_START(now) == TODAY(now) - 2

generated_sales(d, today) ==
    LET price == generated_price(Int2Rat(100), d.discount_pct)
        first == SalesRow("ORD_0000001",
                     IF d.corrupted = "keep"
                     THEN strftime(HISTORICAL_START(today) + d.days_ago)
                     ELSE d.corrupted,
                     "PROD_00001", GenStoreIds[d.store],
                     IF d.outlier \in {"qty", "both"} THEN Int2Rat(50)
                     ELSE Int2Rat(d.qty),
                     IF d.outlier \in {"price", "both"}
                     THEN RMul(price, Int2Rat(10)) ELSE price,
                     Int2Rat(d.discount_pct), "Paid", Int2Rat(0))
    IN  DataFrame(EXPECTED_COLUMNS.sales,
                  IF d.duplicate THEN <<first, first>> ELSE <<first>>)

generated_inventory(d, today) ==
    DataFrame(EXPECTED_COLUMNS.inventory,
              <<InventoryRow(strftime_date(today), "PROD_00001",
                             GenStoreIds[d.store], Int2Rat(d.stock),
                             Int2Rat(d.reorder_point), Int2Rat(7))>>)

generated_campaigns(today) ==
    DataFrame(EXPECTED_COLUMNS.campaigns,
              <<CampaignRow("CAMP_001", strftime_date(today),
                            strftime_date(today + 2), "Dubai", "All",
                            "Electronics", Int2Rat(20), Int2Rat(100000))>>)

\* POST-PROCESSING of the inventory table: the generator's own lambda.
generated_inventory_processed(inventory, products, stores) ==
    LET flagged == [i \in 1..Len(inventory.rows) |->
                      LET r == inventory.rows[i]
                      IN  [r EXCEPT
                            !.snapshot_date = to_datetime(r.snapshot_date),
                            !.stock_status =
                                stock_status_generated(r.stock_on_hand,
                                                       r.reorder_point),
                            !.is_negative = is_negative_of(r.stock_on_hand),
                            !.is_extreme = is_extreme_of(r.stock_on_hand)]]
        withp == merge_left(flagged, products.rows, "product_id",
                            {"category", "brand"})
        withs == merge_left(withp, stores.rows, "store_id", StoreMergeCols)
    IN  DataFrame(inventory.cols \cup {"category", "brand", "stock_status",
                                       "is_negative", "is_extreme",
                                       "city_clean"} \cup StoreMergeCols,
                  [i \in 1..Len(withs) |->
                      [withs[i] EXCEPT !.city_clean = city_clean_of(withs[i].city)]])

\* generate_sample_data: the five tables it returns.
generate_sample_data(d, today) ==
    LET products == generated_products
        stores == generated_stores(d)
    IN  [products |-> products,
         stores |-> process_stores(stores),
         sales |-> process_sales(generated_sales(d, today), products, stores),
         inventory |-> generated_inventory_processed(
                           generated_inventory(d, today), products, stores),
         campaigns |-> process_campaigns(generated_campaigns(today), today),
         error |-> None]

\* ------------------------------------------------------------------- state
\* products .. campaigns, error: what the data source handed to the page
\*   (the tuple of load_and_process_data or generate_sample_data).
\* clean_sales .. clean_stores: st.session_state['clean_*'].
\* fixes_applied: the list render_apply_fixes shows.
\* kpi, sim, reorder_df: the results of calculate_kpi_metrics,
\*   run_promotion_simulation and render_reorder_analysis.
\* scenario_params: the dict the what-if page built for the last simulation.
\* forecast: what render_demand_forecast computed and showed.
\* inventory_view: what render_inventory_analysis computed and showed.
\* pc: the last operation that ran.
VARIABLES products, stores, sales, inventory, campaigns, error,
          clean_sales, clean_inventory, clean_products, clean_stores,
          fixes_applied, kpi, sim, reorder_df, scenario_params, forecast,
          inventory_view, pc

source_vars == <<products, stores, sales, inventory, campaigns, error>>
clean_vars == <<clean_sales, clean_inventory, clean_products, clean_stores,
                fixes_applied>>
result_vars == <<kpi, sim, reorder_df, scenario_params, forecast,
                 inventory_view>>
vars == <<source_vars, clean_vars, result_vars, pc>>

NothingCleaned ==
    /\ clean_sales = None /\ clean_inventory = None
    /\ clean_products = None /\ clean_stores = None
    /\ fixes_applied = <<>>

NothingComputed ==
    kpi = None /\ sim = None /\ reorder_df = None /\ scenario_params = None
    /\ forecast = None /\ inventory_view = None

\* The clock readings of the model, in half days.
Clock == {2}

\* The clock readings at which the sample generator runs: midnight and noon
\* of one day and midnight of the next.
GeneratorClock == {2, 3, 4}

\* What the dirty-data injections of one generator run do to the order: an
\* outlier of either kind, a duplicate of the row, or a poisoned timestamp.
GenInjections ==
    {[corrupted |-> "keep", outlier |-> o, duplicate |-> dup] :
        o \in {"none", "qty", "price", "both"}, dup \in BOOLEAN}
    \cup {[corrupted |-> "not_a_time", outlier |-> "none", duplicate |-> FALSE]}

\* ---------------------------------------------------------- uploaded files
File(cols, rows) == [readable |-> TRUE, cols |-> cols, rows |-> rows]
\* A file read_csv cannot parse.
Unreadable == [readable |-> FALSE, cols |-> {}, rows |-> <<>>]
Without(file, c) == [file EXCEPT !.cols = @ \ {c}]

\* Sequences over S of length 1..n.
SeqUpTo(S, n) == UNION {[1..k -> S] : k \in 1..n}

GoodProducts == File(generated_products.cols, generated_products.rows)

UploadCities == {"Dubai", "AD", "Ajman", " dubai", NA}

StoresOf(c1, c2) ==
    File(EXPECTED_COLUMNS.stores,
         <<StoreRow("STORE_001", c1, "App", "Own"),
           StoreRow("STORE_002", c2, "Web", "3PL")>>)
GoodStores == StoresOf("Dubai", "AD")

UploadSaleRows ==
    {SalesRow("ORD_1", TimeText[1], "PROD_00001", "STORE_001", q, p,
              Int2Rat(10), "Paid", Int2Rat(0)) :
        q \in {Int2Rat(2), Text, Null},
        p \in {Int2Rat(100), Rat(25, 2), Text}}
    \cup {SalesRow("ORD_1", x[1], "PROD_00001", x[2], Int2Rat(2), Rat(25, 2),
                   Int2Rat(10), "Paid", Int2Rat(0)) :
             x \in {<<"not_a_time", "STORE_001">>, <<TimeText[1], "STORE_009">>}}
GoodSales ==
    File(EXPECTED_COLUMNS.sales,
         <<SalesRow("ORD_1", TimeText[1], "PROD_00001", "STORE_001",
                    Int2Rat(2), Rat(25, 2), Int2Rat(10), "Paid", Int2Rat(0))>>)

UploadInventoryRows ==
    {InventoryRow(DateText[1], "PROD_00001", "STORE_002", s, r, Int2Rat(7)) :
        s \in {Int2Rat(-5), Int2Rat(0), Int2Rat(15), Int2Rat(20),
               Int2Rat(25), Null, Text},
        r \in {Int2Rat(20), Text}}
    \cup {InventoryRow("N/A", "PROD_00001", "STORE_002", Int2Rat(15),
                       Int2Rat(20), Int2Rat(7))}
GoodInventory ==
    File(EXPECTED_COLUMNS.inventory,
         <<InventoryRow(DateText[1], "PROD_00001", "STORE_002", Int2Rat(15),
                        Int2Rat(20), Int2Rat(7))>>)

GoodCampaigns == File(generated_campaigns(2).cols, generated_campaigns(2).rows)

GoodFiles == [products |-> GoodProducts, stores |-> GoodStores,
              sales |-> GoodSales, inventory |-> GoodInventory,
              campaigns |-> GoodCampaigns]

\* The uploads of the model: the good files with the rows of one file
\* varied, and every combination of files that are good, unparsable or
\* short of a column.
RowUploads ==
    {[GoodFiles EXCEPT !.stores = StoresOf(c1, c2)] : c1, c2 \in UploadCities}
    \cup {[GoodFiles EXCEPT !.sales = File(EXPECTED_COLUMNS.sales, rows)] :
             rows \in SeqUpTo(UploadSaleRows, MaxSales)}
    \cup {[GoodFiles EXCEPT !.inventory = File(EXPECTED_COLUMNS.inventory, rows)] :
             rows \in SeqUpTo(UploadInventoryRows, MaxInventory)}

SchemaUploads ==
    [products : {GoodProducts, Unreadable, Without(GoodProducts, "launch_flag"),
                 Without(GoodProducts, "category")},
     stores : {GoodStores, Unreadable, Without(GoodStores, "city")},
     sales : {GoodSales, Unreadable, Without(GoodSales, "payment_status"),
              Without(GoodSales, "order_time")},
     inventory : {GoodInventory, Unreadable,
                  Without(GoodInventory, "lead_time_days")},
     campaigns : {GoodCampaigns, Unreadable,
                  Without(GoodCampaigns, "promo_budget_aed"),
                  Without(GoodCampaigns, "start_date")}]

\* Spellings of the unit_cost_aed header of products.csv and of the qty
\* header of sales_raw.csv.
UnitCostHeaders ==
    {"Unit_Cost_AED", " unit_cost_aed ", "unit cost aed", " Unit Cost AED",
     "unit_cost", "cost"}

HeaderUploads ==
    {[GoodFiles EXCEPT !.products.cols = (@ \ {"unit_cost_aed"}) \cup {h}] :
        h \in UnitCostHeaders}
    \cup {[GoodFiles EXCEPT !.sales.cols = (@ \ {"qty"}) \cup {"QTY "}]}

Uploads == RowUploads \cup SchemaUploads \cup HeaderUploads

\* ------------------------------------------------------------ data source
\* uploaded: what the data source was given, kept so that what it returned
\* can be set against it: the five files of the last upload, or the draws the
\* seeded generators made in the last run of generate_sample_data (None
\* before either).
VARIABLE uploaded

\* st.session_state of main: the keys that are set, each with its value;
\* the calls of load_and_prepare_data since the last 'Refresh Data'; and
\* the view picked in the navigation.
VARIABLES session_state, loads, selected_tab

main_vars == <<session_state, loads, selected_tab>>

\* filters, filtered: the filters dictionary get_filtered_data was called
\* with and the two frames it returned.
VARIABLES filters, filtered

filter_vars == <<filters, filtered>>

NothingFiltered == filters = None /\ filtered = None

\* The session store: the keys that are in it and the table under each of
\* the five table keys (None under a key that is not in it); the value
\* under data_loaded is True whenever the key is there.
TableKeys == {"sales_df", "products_df", "stores_df", "inventory_df",
              "campaigns_df"}
EmptySession == [present |-> {}, sales_df |-> None, products_df |-> None,
                 stores_df |-> None, inventory_df |-> None,
                 campaigns_df |-> None]

\* A session in which main has not run.
NoSession == session_state = EmptySession /\ loads = 0 /\ selected_tab = None

InitLoad ==
    /\ products = None /\ stores = None /\ sales = None
    /\ inventory = None /\ campaigns = None /\ error = None
    /\ NothingCleaned /\ NothingComputed
    /\ uploaded = None
    /\ NoSession /\ NothingFiltered
    /\ pc = "start"

\* render_sidebar, "Upload Your Files", all five files present: the loader
\* runs, and on an error the sidebar returns five Nones.
UploadFiles ==
    /\ pc = "start"
    /\ \E f \in Uploads, now \in Clock :
        LET result == load_and_process_data(f, now)
        IN  /\ products' = result.products
            /\ stores' = result.stores
            /\ sales' = result.sales
            /\ inventory' = result.inventory
            /\ campaigns' = result.campaigns
            /\ error' = result.error
            /\ uploaded' = f
            /\ UNCHANGED <<main_vars, filter_vars>>
            /\ pc' = "uploaded"
            /\ UNCHANGED <<clean_vars, result_vars>>

\* render_sidebar, "Sample Data (Demo)".
SampleData ==
    /\ pc = "start"
    /\ \E store \in Range(CITIES),
          injected \in GenInjections,
          qty \in {1, 3},
          discount_pct \in {0, 20},
          stock \in {-5, 15, 25, 9999},
          today \in GeneratorClock :
      \E spelling \in INCONSISTENT_CITIES[store] :
        LET d == [city_value |-> [c \in Range(CITIES) |->
                                    IF c = store THEN spelling ELSE c],
                  days_ago |-> 0, store |-> store, qty |-> qty,
                  discount_pct |-> discount_pct,
                  corrupted |-> injected.corrupted,
                  outlier |-> injected.outlier,
                  duplicate |-> injected.duplicate,
                  stock |-> stock, reorder_point |-> 20]
            result == generate_sample_data(d, today)
        IN  /\ products' = result.products
            /\ stores' = result.stores
            /\ sales' = result.sales
            /\ inventory' = result.inventory
            /\ campaigns' = result.campaigns
            /\ error' = None
            /\ uploaded' = [draws |-> d]
            /\ UNCHANGED <<main_vars, filter_vars>>
            /\ pc' = "generated"
            /\ UNCHANGED <<clean_vars, result_vars>>

\* The script runs again from the top on the next interaction: the tables
\* of the last run are locals and are gone.
Rerun ==
    /\ pc # "start"
    /\ products' = None /\ stores' = None /\ sales' = None
    /\ inventory' = None /\ campaigns' = None /\ error' = None
    /\ uploaded' = None
    /\ UNCHANGED <<main_vars, filter_vars>>
    /\ pc' = "start"
    /\ UNCHANGED <<clean_vars, result_vars>>

NextLoad == UploadFiles \/ SampleData \/ Rerun

SpecLoad == InitLoad /\ [][NextLoad]_<<vars, uploaded>>

\* ------------------------------------------------- claims on the data source
Loaded == pc \in {"uploaded", "generated"} /\ error = None
Tables == <<products, stores, sales, inventory, campaigns>>
FileNames == {"products", "stores", "sales", "inventory", "campaigns"}

\* The rows that carry a city_clean column.
CityRows == Range(stores.rows) \cup Range(sales.rows) \cup Range(inventory.rows)

\* The value the spec allows besides the standard cities.
FallbackCity == "Unknown"

C4_StockStatusRule ==
    Loaded =>
        \A r \in Range(inventory.rows) :
            LET s == r.stock_on_hand
                p == r.reorder_point
                critical == IsNum(s) /\ s[1] <= 0
                low == /\ ~critical /\ IsNum(s) /\ IsNum(p)
                       /\ s[1] * p[2] <= p[1] * s[2]
            IN  /\ r.stock_status \in {"Critical", "Low", "Healthy"}
                /\ r.stock_status = "Critical" <=> critical
                /\ r.stock_status = "Low" <=> low
                /\ s = Int2Rat(-5) /\ p = Int2Rat(20) => r.stock_status = "Critical"
                /\ s = Int2Rat(15) /\ p = Int2Rat(20) => r.stock_status = "Low"
                /\ s = Int2Rat(25) /\ p = Int2Rat(20) => r.stock_status = "Healthy"
                /\ stock_status_generated(s, p) = stock_status_loaded(s, p)

\* An uploaded inventory with an empty shelf (stock 0) and a full one.
C4_Witness ==
    /\ pc = "uploaded" /\ error = None
    /\ \E r \in Range(inventory.rows) :
           r.stock_on_hand = Int2Rat(0) /\ r.stock_status = "Critical"
    /\ \E r \in Range(inventory.rows) :
           r.stock_on_hand = Int2Rat(25) /\ r.stock_status = "Healthy"

\* A file that departs from the schema: a column of EXPECTED_COLUMNS is not
\* among its columns.
SchemaMismatch(f) ==
    \E k \in FileNames : f[k].readable /\ ~(EXPECTED_COLUMNS[k] \subseteq f[k].cols)
ParseFailure(f) == \E k \in FileNames : ~f[k].readable

\* C8 as stated: on any parse failure or schema mismatch the error element
\* is a message, on success it is None and the five tables are there, and
\* the error is a message exactly when the five tables are None.
C8_LoaderReportsEveryMismatch ==
    pc = "uploaded" =>
        /\ (ParseFailure(uploaded) \/ SchemaMismatch(uploaded)) => error # None
        /\ error = None => \A i \in 1..5 : Tables[i] # None
        /\ error # None <=> \A i \in 1..5 : Tables[i] = None

\* C9 as stated: when exactly one of the five files fails to parse, the
\* tables of the other four are returned.
C9_OtherTablesSurvive ==
    pc = "uploaded" =>
        \A k \in FileNames :
            (~uploaded[k].readable /\ \A j \in FileNames \ {k} : uploaded[j].readable)
            => Cardinality({i \in 1..5 : Tables[i] # None}) = 4

\* C9 amended: a parse error in any of the five files aborts the whole
\* load: all five tables are None and the error element is the message.
C9_OneFailureAbortsAll ==
    pc = "uploaded" /\ ParseFailure(uploaded) =>
        /\ \A i \in 1..5 : Tables[i] = None
        /\ error # None

\* An upload in which only stores.csv does not parse.
C9_Witness ==
    /\ pc = "uploaded"
    /\ ~uploaded.stores.readable
    /\ \A j \in FileNames \ {"stores"} : uploaded[j].readable
    /\ products = None /\ error # None

\* The cells of the numeric columns the claim names, and the time cells.
BadNumericCell(f) ==
    \/ \E r \in Range(f.sales.rows) : IsText(r.qty) \/ IsText(r.selling_price_aed)
    \/ \E r \in Range(f.inventory.rows) : IsText(r.stock_on_hand)

\* C10 as stated: with every file parsed and every column there, a cell
\* that is not a number or not a time never aborts the load: the error is
\* None, and the cell is null in the table returned.
C10_BadCellsBecomeNull ==
    (/\ pc = "uploaded"
     /\ ~ParseFailure(uploaded) /\ ~SchemaMismatch(uploaded)) =>
        /\ error = None
        /\ \A i \in 1..Len(uploaded.sales.rows) :
               /\ IsText(uploaded.sales.rows[i].qty) => IsNull(sales.rows[i].qty)
               /\ to_datetime(uploaded.sales.rows[i].order_time) = Null
                      => IsNull(sales.rows[i].order_time)

\* The logical column a header is a spelling of: by letter case, by blanks
\* around it, by blanks for underscores, or as an alias.
LogicalColumn(h) ==
    IF h \in UnitCostHeaders THEN "unit_cost_aed"
    ELSE IF h = "QTY " THEN "qty"
    ELSE h

WithLogicalColumns(f) ==
    [k \in DOMAIN f |-> [f[k] EXCEPT !.cols = {LogicalColumn(h) : h \in @}]]

Returned ==
    [products |-> products, stores |-> stores, sales |-> sales,
     inventory |-> inventory, campaigns |-> campaigns, error |-> error]

\* C11 as stated: an upload whose headers are spellings of the schema's
\* names (other case, blanks around, blanks for underscores, or an alias
\* such as cost or unit_cost) loads with the result the canonical headers
\* give.
C11_HeaderSpellingsLoadAlike ==
    pc = "uploaded" =>
        \A now \in Clock :
            Returned = load_and_process_data(WithLogicalColumns(uploaded), now)

\* C12 as stated: generation is deterministic in the seed: an execution of
\* generate_sample_data at any other clock reading, the seeded generators
\* making the same draws, returns the same five tables.
C12_SameSeedSameTables ==
    pc = "generated" =>
        \A now \in GeneratorClock :
            Returned = generate_sample_data(uploaded.draws, now)

\* C13: every sales row generate_sample_data returns, the rows the outlier
\* injection changed and the duplicated rows included, has
\* revenue = qty * selling_price_aed.
C13_RevenueIsQtyTimesPrice ==
    pc = "generated" =>
        \A i \in 1..Len(sales.rows) :
            LET r == sales.rows[i]
            IN  r.revenue = RMul(r.qty, r.selling_price_aed)

\* An order the injections made an outlier in both columns and duplicated.
C13_Witness ==
    /\ pc = "generated"
    /\ Len(sales.rows) = 2
    /\ \A i \in 1..Len(sales.rows) :
           /\ sales.rows[i].qty = Int2Rat(50)
           /\ sales.rows[i].selling_price_aed = Int2Rat(800)
           /\ sales.rows[i].revenue = Int2Rat(40000)

\* ------------------------------------------------------------ apply fixes
\* Fix 1 without its default: a mutant.
standardize_city_no_default(city) == replace_city(city)

\* Fix 1: replace(CITY_MAPPING), then every value that is no standard city
\* becomes Dubai.
standardize_city(city) ==
    LET x == replace_city(city)
    IN  IF x \in STANDARD_CITIES THEN x ELSE "Dubai"

fix_cities_rows(rows) ==
    [i \in 1..Len(rows) |-> [rows[i] EXCEPT !.city = standardize_city(rows[i].city)]]

\* drop_duplicates(subset='order_id', keep='last'): a mutant.
RECURSIVE drop_duplicates_keep_last(_)
drop_duplicates_keep_last(rows) ==
    IF rows = <<>> THEN <<>>
    ELSE IF \E j \in 2..Len(rows) : rows[j].order_id = rows[1].order_id
         THEN drop_duplicates_keep_last(Tail(rows))
         ELSE <<rows[1]>> \o drop_duplicates_keep_last(Tail(rows))

\* Fix 2: drop_duplicates(subset='order_id', keep='first'): a row stays
\* when no earlier row has its order_id.
drop_duplicates(rows) ==
    LET keep == SelectSeq([i \in 1..Len(rows) |-> i],
                    LAMBDA i : ~\E j \in 1..(i - 1) :
                                   rows[j].order_id = rows[i].order_id)
    IN  [k \in 1..Len(keep) |-> rows[keep[k]]]

\* dropna(subset=['order_time', 'discount_pct']): a mutant.
dropna_rows(rows) ==
    SelectSeq(rows, LAMBDA r : ~IsNull(r.order_time) /\ ~IsNull(r.discount_pct))

\* Fix 3: the rows whose order_time is not NaT.
valid_timestamp_rows(rows) == SelectSeq(rows, LAMBDA r : ~IsNull(r.order_time))

\* A negative stock left as it is: a mutant.
negative_kept(stock) == stock

\* Fix 4 and Fix 5 on one stock value.
negative_to_zero(stock) == IF RLt(stock, Zero) THEN Zero ELSE stock

\* A cap that takes the limit off the value: a mutant.
cap_by_subtraction(stock) ==
    IF RGt(stock, Int2Rat(5000)) THEN RSub(stock, Int2Rat(5000)) ELSE stock

cap_extreme(stock) == IF RGt(stock, Int2Rat(5000)) THEN Int2Rat(5000) ELSE stock


\* Fix 6, discounts: fillna(0).
fillna_zero(x) == IF IsNull(x) THEN Zero ELSE x

\* The sequence s of rationals without NaN, in ascending order.
RECURSIVE sorted(_)
sorted(s) ==
    IF s = <<>> THEN <<>>
    ELSE LET m == CHOOSE i \in 1..Len(s) : \A j \in 1..Len(s) : RLe(s[i], s[j])
             rest == [k \in 1..(Len(s) - 1) |-> IF k < m THEN s[k] ELSE s[k + 1]]
         IN  <<s[m]>> \o sorted(rest)

\* Series.median(): NaN cells are skipped; NaN when nothing is left.
median(s) ==
    LET v == sorted(NotNull(s))
        n == Len(v)
    IN  IF n = 0 THEN Null
        ELSE IF n % 2 = 1 THEN v[(n + 1) \div 2]
        ELSE RDiv(RAdd(v[n \div 2], v[(n \div 2) + 1]), Int2Rat(2))

cost_ratio(r) == RDiv(r.unit_cost_aed, r.base_price_aed)

\* category_medians.get(cat, 0.5): groupby drops the rows without a
\* category, so only a missing category takes the default; a category whose
\* rows all lack a ratio is in the index with a NaN median.
category_median(rows, cat) ==
    IF cat = NA THEN Rat(1, 2)
    ELSE median([i \in 1..Len(SelectSeq(rows, LAMBDA r : r.category = cat)) |->
                    cost_ratio(SelectSeq(rows, LAMBDA r : r.category = cat)[i])])

\* Fix 6, unit costs: each missing cost becomes base_price * ratio.
impute_cost_rows(rows) ==
    [i \in 1..Len(rows) |->
        IF IsNull(rows[i].unit_cost_aed)
        THEN [rows[i] EXCEPT !.unit_cost_aed =
                 RMul(rows[i].base_price_aed,
                      category_median(rows, rows[i].category))]
        ELSE rows[i]]

AllFixes == [fix_cities |-> TRUE, fix_duplicates |-> TRUE,
             fix_timestamps |-> TRUE, fix_negative_stock |-> TRUE,
             fix_extreme_stock |-> TRUE, impute_missing |-> TRUE]
FixOptions == [DOMAIN AllFixes -> BOOLEAN]

\* The body of the button handler of render_apply_fixes on the four tables
\* t with the checkboxes o: the four clean tables and the list of fixes.
apply_fixes(t, o) ==
    LET stores1 == IF o.fix_cities THEN fix_cities_rows(t.stores.rows)
                   ELSE t.stores.rows
        sales2 == IF o.fix_duplicates THEN drop_duplicates(t.sales.rows)
                  ELSE t.sales.rows
        sales3 == IF o.fix_timestamps THEN valid_timestamp_rows(sales2)
                  ELSE sales2
        neg_count == Len(SelectSeq(t.inventory.rows,
                               LAMBDA r : RLt(r.stock_on_hand, Zero)))
        inv4 == IF o.fix_negative_stock
                THEN [i \in 1..Len(t.inventory.rows) |->
                        [t.inventory.rows[i] EXCEPT
                            !.stock_on_hand = negative_to_zero(@)]]
                ELSE t.inventory.rows
        extreme_count == Len(SelectSeq(inv4,
                             LAMBDA r : RGt(r.stock_on_hand, Int2Rat(5000))))
        inv5 == IF o.fix_extreme_stock
                THEN [i \in 1..Len(inv4) |->
                        [inv4[i] EXCEPT !.stock_on_hand = cap_extreme(@)]]
                ELSE inv4
        discount_missing == Len(SelectSeq(sales3, LAMBDA r : IsNull(r.discount_pct)))
        sales6 == IF o.impute_missing
                  THEN [i \in 1..Len(sales3) |->
                          [sales3[i] EXCEPT !.discount_pct = fillna_zero(@)]]
                  ELSE sales3
        cost_missing == Len(SelectSeq(t.products.rows,
                                  LAMBDA r : IsNull(r.unit_cost_aed)))
        products6 == IF o.impute_missing /\ cost_missing > 0
                     THEN impute_cost_rows(t.products.rows)
                     ELSE t.products.rows
    IN  [sales |-> DataFrame(t.sales.cols, sales6),
         inventory |-> DataFrame(t.inventory.cols, inv5),
         products |-> DataFrame(t.products.cols, products6),
         stores |-> DataFrame(t.stores.cols, stores1),
         fixes_applied |->
            (IF o.fix_cities THEN <<[fix |-> "cities"]>> ELSE <<>>)
            \o (IF o.fix_duplicates
                THEN <<[fix |-> "duplicates",
                        n |-> Len(t.sales.rows) - Len(sales2)]>> ELSE <<>>)
            \o (IF o.fix_timestamps
                THEN <<[fix |-> "timestamps",
                        n |-> Len(sales2) - Len(sales3)]>> ELSE <<>>)
            \o (IF o.fix_negative_stock
                THEN <<[fix |-> "negative_stock", n |-> neg_count]>> ELSE <<>>)
            \o (IF o.fix_extreme_stock
                THEN <<[fix |-> "extreme_stock", n |-> extreme_count]>>
                ELSE <<>>)
            \o (IF o.impute_missing /\ cost_missing > 0
                THEN <<[fix |-> "unit_cost", n |-> cost_missing]>> ELSE <<>>)
            \o (IF o.impute_missing
                THEN <<[fix |-> "discount", n |-> discount_missing]>>
                ELSE <<>>)]

\* ----------------------------------------------------------------- cleaner
\* The tables the cleaner is given are tables the loader returned: a dirty
\* upload with the rows of one file varied.
ProductIds == <<"PROD_00001", "PROD_00002", "PROD_00003", "PROD_00004",
                "PROD_00005">>

CleanProductRows ==
    {ProductRow("", "Electronics", "Samsung", Int2Rat(100), Int2Rat(40), "Regular"),
     ProductRow("", "Electronics", "Samsung", Int2Rat(100), Int2Rat(60), "Regular"),
     ProductRow("", "Electronics", "Samsung", Int2Rat(50), Null, "Regular"),
     ProductRow("", "Electronics", "Samsung", Null, Null, "Regular"),
     ProductRow("", "Fashion", "Zara", Int2Rat(50), Null, "New"),
     ProductRow("", NA, "Zara", Int2Rat(100), Null, "New")}

ProductsOf(rows) ==
    File(EXPECTED_COLUMNS.products,
         [i \in 1..Len(rows) |-> [rows[i] EXCEPT !.product_id = ProductIds[i]]])

CleanSaleRows ==
    {SalesRow(id, x[1], "PROD_00001", "STORE_001", Int2Rat(2), Int2Rat(100),
              x[2], "Paid", Int2Rat(0)) :
        id \in {"ORD_1", "ORD_2"},
        x \in {<<TimeText[1], Int2Rat(10)>>, <<"not_a_time", Null>>}}
    \cup {SalesRow("ORD_1", TimeText[3], "PROD_00001", "STORE_001",
                   Int2Rat(2), Int2Rat(100), Null, "Paid", Int2Rat(0))}

CleanInventoryRows ==
    {InventoryRow(DateText[1], "PROD_00001", "STORE_002", s, Int2Rat(20),
                  Int2Rat(7)) :
        s \in {Int2Rat(-5), Int2Rat(15), Int2Rat(5000), Int2Rat(9999),
               Int2Rat(12000), Null}}

DirtyFiles ==
    [products |-> GoodProducts,
     stores |-> StoresOf("DXB", "Ajman"),
     sales |-> File(EXPECTED_COLUMNS.sales,
                  <<SalesRow("ORD_1", TimeText[1], "PROD_00001", "STORE_001",
                             Int2Rat(2), Int2Rat(100), Null, "Paid", Int2Rat(0)),
                    SalesRow("ORD_2", "not_a_time", "PROD_00001", "STORE_001",
                             Int2Rat(2), Int2Rat(100), Int2Rat(10), "Paid",
                             Int2Rat(0)),
                    SalesRow("ORD_1", TimeText[3], "PROD_00001", "STORE_001",
                             Int2Rat(2), Int2Rat(100), Int2Rat(10), "Paid",
                             Int2Rat(0))>>),
     inventory |-> File(EXPECTED_COLUMNS.inventory,
                      <<InventoryRow(DateText[1], "PROD_00001", "STORE_002",
                                     Int2Rat(-5), Int2Rat(20), Int2Rat(7)),
                        InventoryRow(DateText[2], "PROD_00001", "STORE_002",
                                     Int2Rat(9999), Int2Rat(20), Int2Rat(7))>>),
     campaigns |-> GoodCampaigns]

CleanUploads ==
    {[DirtyFiles EXCEPT !.stores = StoresOf(c1, c2)] : c1, c2 \in UploadCities}
    \cup {[DirtyFiles EXCEPT !.sales = File(EXPECTED_COLUMNS.sales, rows)] :
             rows \in SeqUpTo(CleanSaleRows, MaxCleanSales)}
    \cup {[DirtyFiles EXCEPT !.inventory = File(EXPECTED_COLUMNS.inventory, rows)] :
             rows \in SeqUpTo(CleanInventoryRows, MaxCleanInventory)}
    \cup {[DirtyFiles EXCEPT !.products = ProductsOf(rows)] :
             rows \in SeqUpTo(CleanProductRows, MaxCleanProducts)}

InitClean ==
    \E f \in CleanUploads, now \in Clock :
        LET result == load_and_process_data(f, now)
        IN  /\ products = result.products
            /\ stores = result.stores
            /\ sales = result.sales
            /\ inventory = result.inventory
            /\ campaigns = result.campaigns
            /\ error = result.error
            /\ uploaded = f
            /\ NoSession /\ NothingFiltered
            /\ NothingCleaned /\ NothingComputed
            /\ pc = "loaded"

\* The handler without its four .copy() calls, the fixes written into the
\* loaded frames: a mutant.
ApplyFixesInPlace ==
    /\ pc = "loaded"
    /\ error = None
    /\ \E o \in FixOptions :
        LET result == apply_fixes([sales |-> sales, inventory |-> inventory,
                                   products |-> products, stores |-> stores], o)
        IN  /\ sales' = result.sales
            /\ inventory' = result.inventory
            /\ products' = result.products
            /\ stores' = result.stores
            /\ clean_sales' = result.sales
            /\ clean_inventory' = result.inventory
            /\ clean_products' = result.products
            /\ clean_stores' = result.stores
            /\ fixes_applied' = result.fixes_applied
            /\ pc' = "cleaned"
            /\ UNCHANGED <<campaigns, error, result_vars, uploaded, main_vars, filter_vars>>

\* render_apply_fixes, the button with some choice of the six checkboxes.
\* The handler reads the loaded tables only, never the clean_* of an
\* earlier click, so one click per loaded state shows all it can produce.
ApplyFixes ==
    /\ pc = "loaded"
    /\ error = None
    /\ \E o \in FixOptions :
        LET result == apply_fixes([sales |-> sales, inventory |-> inventory,
                                   products |-> products, stores |-> stores], o)
        IN  /\ clean_sales' = result.sales
            /\ clean_inventory' = result.inventory
            /\ clean_products' = result.products
            /\ clean_stores' = result.stores
            /\ fixes_applied' = result.fixes_applied
            /\ pc' = "cleaned"
            /\ UNCHANGED <<source_vars, result_vars, uploaded, main_vars, filter_vars>>

NextClean == ApplyFixes

SpecClean == InitClean /\ [][NextClean]_<<vars, uploaded>>

\* --------------------------------------------------- claims on the cleaner
FixesRun == {fixes_applied[i].fix : i \in 1..Len(fixes_applied)}
OrderIds(rows) == {rows[i].order_id : i \in 1..Len(rows)}
RowsOf(rows, id) == SelectSeq(rows, LAMBDA r : r.order_id = id)
\* The first row of the input with this order_id, as the later fixes leave it.
FirstOccurrence(id) ==
    LET first == RowsOf(sales.rows, id)[1]
    IN  IF "discount" \in FixesRun
        THEN [first EXCEPT !.discount_pct = fillna_zero(@)]
        ELSE first

\* C1: after the duplicate fix no order_id is left on two rows; when the
\* timestamp fix did not run after it, every order_id of the input, be it on
\* one row or on several, is left on exactly one row, and the row is its
\* first occurrence in the order of the input.
C1_DedupKeepsFirst ==
    (pc = "cleaned" /\ "duplicates" \in FixesRun) =>
        \A id \in OrderIds(sales.rows) :
            /\ Len(RowsOf(clean_sales.rows, id)) <= 1
            /\ RowsOf(clean_sales.rows, id) # <<>> =>
                   RowsOf(clean_sales.rows, id)[1] = FirstOccurrence(id)
            /\ "timestamps" \notin FixesRun =>
                   Len(RowsOf(clean_sales.rows, id)) = 1

\* An order_id on the first and the third row, the two rows different,
\* another order between them, and the duplicate fix alone on the table.
C1_Witness ==
    /\ pc = "cleaned"
    /\ "duplicates" \in FixesRun /\ "timestamps" \notin FixesRun
    /\ Len(sales.rows) = 3
    /\ sales.rows[1].order_id = sales.rows[3].order_id
    /\ sales.rows[1].order_id # sales.rows[2].order_id
    /\ sales.rows[1] # sales.rows[3]
    /\ Len(clean_sales.rows) = 2

AllSixRan ==
    {"cities", "duplicates", "timestamps", "negative_stock",
     "extreme_stock", "discount"} \subseteq FixesRun

\* C2: the four tables a click with all six options leaves are a fixed
\* point of the cleaner: a second pass with all six options over them
\* returns the same four tables.
C2_CleaningIdempotent ==
    (pc = "cleaned" /\ AllSixRan) =>
        LET again == apply_fixes([sales |-> clean_sales,
                                  inventory |-> clean_inventory,
                                  products |-> clean_products,
                                  stores |-> clean_stores], AllFixes)
        IN  /\ again.sales = clean_sales
            /\ again.inventory = clean_inventory
            /\ again.products = clean_products
            /\ again.stores = clean_stores

\* A first pass in which every fix had something to do.
C2_Witness ==
    /\ pc = "cleaned" /\ AllSixRan /\ "unit_cost" \in FixesRun
    /\ \A i \in 1..Len(fixes_applied) :
           fixes_applied[i].fix # "cities" => fixes_applied[i].n > 0
    /\ clean_stores # stores
    /\ \E i \in 1..Len(inventory.rows) :
           inventory.rows[i].stock_on_hand = Int2Rat(12000)

\* The ratios unit_cost / base_price of the rows of one category that
\* have one.
ValidRatios(rows, cat) ==
    SelectSeq([i \in 1..Len(rows) |->
                  IF rows[i].category = cat THEN cost_ratio(rows[i]) ELSE Null],
              LAMBDA x : ~IsNull(x))

\* C14 as stated: after 'Impute missing values' no sales row is left with
\* a null discount_pct and no product row that has a base price with a
\* null unit_cost_aed: a missing cost is base_price times the median ratio
\* of the rows of its category, and base_price * 0.5 when the category has
\* no row with a valid ratio.
C14_ImputeLeavesNoNull ==
    (pc = "cleaned" /\ "discount" \in FixesRun) =>
        /\ \A i \in 1..Len(clean_sales.rows) :
               ~IsNull(clean_sales.rows[i].discount_pct)
        /\ \A i \in 1..Len(products.rows) :
               LET r == products.rows[i]
                   ratios == ValidRatios(products.rows, r.category)
               IN  (IsNull(r.unit_cost_aed) /\ ~IsNull(r.base_price_aed)) =>
                       clean_products.rows[i].unit_cost_aed =
                           RMul(r.base_price_aed,
                                IF ratios = <<>> THEN Rat(1, 2)
                                ELSE median(ratios))

\* The products, stores and inventory tables keep every row.
OtherTablesKeepRows ==
    /\ Len(clean_products.rows) = Len(products.rows)
    /\ Len(clean_stores.rows) = Len(stores.rows)
    /\ Len(clean_inventory.rows) = Len(inventory.rows)

\* C15 as stated: whatever options are ticked, cleaning removes rows only
\* by deduplication: every order_id of the input is still there with its
\* first occurrence, a table loses rows only when the duplicate fix ran,
\* and the other tables keep every row.
C15_OnlyDedupRemovesRows ==
    pc = "cleaned" =>
        /\ OtherTablesKeepRows
        /\ \A id \in OrderIds(sales.rows) :
               /\ RowsOf(clean_sales.rows, id) # <<>>
               /\ RowsOf(clean_sales.rows, id)[1] = FirstOccurrence(id)
        /\ "duplicates" \notin FixesRun =>
               Len(clean_sales.rows) = Len(sales.rows)

\* The sales row at index i is a later occurrence of its order_id.
LaterOccurrence(i) ==
    \E j \in 1..(i - 1) : sales.rows[j].order_id = sales.rows[i].order_id

\* The indices of the sales rows neither the duplicate fix nor the
\* timestamp fix removes, in the order of the input.
KeptRows ==
    SelectSeq([i \in 1..Len(sales.rows) |-> i],
              LAMBDA i :
                  /\ ~("duplicates" \in FixesRun /\ LaterOccurrence(i))
                  /\ ~("timestamps" \in FixesRun
                       /\ IsNull(sales.rows[i].order_time)))

\* C15, amended: cleaning removes rows only from the sales table, and a
\* sales row is absent exactly when the duplicate fix ran and the row is a
\* later occurrence of its order_id, or the timestamp fix ran and the
\* row's order_time is null; the rows left keep the order of the input.
C15_RowsRemovedByDedupOrTimestampFix ==
    pc = "cleaned" =>
        /\ OtherTablesKeepRows
        /\ Len(clean_sales.rows) = Len(KeptRows)
        /\ \A k \in 1..Len(KeptRows) :
               LET r == sales.rows[KeptRows[k]]
               IN  clean_sales.rows[k] =
                       IF "discount" \in FixesRun
                       THEN [r EXCEPT !.discount_pct = fillna_zero(@)]
                       ELSE r

\* Both fixes ran on three rows: the first row has an order_id of its own
\* and no timestamp, the third is a later occurrence of the second.
C15_Witness ==
    /\ pc = "cleaned"
    /\ {"duplicates", "timestamps"} \subseteq FixesRun
    /\ Len(sales.rows) = 3
    /\ IsNull(sales.rows[1].order_time)
    /\ sales.rows[1].order_id # sales.rows[2].order_id
    /\ sales.rows[2].order_id = sales.rows[3].order_id
    /\ ~IsNull(sales.rows[2].order_time)
    /\ Len(clean_sales.rows) = 1

\* C16: a click on the apply-fixes button never patches the loaded tables
\* in place: the five tables the data source returned are after the click
\* what they were before it, and what the click changes is the clean_*
\* entries of the session state and the list of fixes.
C16_LoadedTablesUntouched ==
    [][pc' = "cleaned" => UNCHANGED <<source_vars, result_vars>>]_<<vars, uploaded>>

\* A click with all six options whose clean sales, inventory and stores
\* tables all differ from the loaded ones.
C16_Witness ==
    /\ pc = "cleaned" /\ AllSixRan
    /\ clean_sales # sales
    /\ clean_inventory # inventory
    /\ clean_stores # stores

\* ---------------------------------------------------------------- reorder
SetMax(S) == CHOOSE x \in S : \A y \in S : y <= x
SetMin(S) == CHOOSE x \in S : \A y \in S : x <= y

\* (order_time.max() - order_time.min()).days over rows with a timestamp.
date_range_of(valid) ==
    LET ticks == {valid[i].order_time[1] : i \in 1..Len(valid)}
    IN  days(SetMax(ticks) - SetMin(ticks))

\* No clipping at all: a mutant.
clip_nothing(x) == x

\* Series.clip(lower=0): NaN stays NaN.
clip_lower_zero(x) == IF RLt(x, Zero) THEN Zero ELSE x

safety_stock_options == {3, 5, 7, 10, 14}
reorder_cycle_options == {7, 14, 21, 30}

\* The reorder table of render_reorder_analysis: the inventory rows with the
\* velocity of their product and the quantities computed from it.
reorder_analysis(filtered_inventory, sales_df, safety_stock_days, reorder_cycle) ==
    LET valid_sales == SelectSeq(sales_df.rows, LAMBDA r : ~IsNull(r.order_time))
        date_range == IF Len(valid_sales) > 0 THEN date_range_of(valid_sales)
                      ELSE 0
        of_product(p) == SelectSeq(valid_sales, LAMBDA r : r.product_id = p)
        \* the velocity table has a row per product sold when the range is
        \* above zero; the left merge leaves NaN elsewhere and fillna(0)
        \* turns it into 0
        daily_velocity(p) ==
            IF Len(valid_sales) > 0 /\ date_range > 0 /\ of_product(p) # <<>>
            THEN RDiv(RSum(Col(of_product(p), "qty")), Int2Rat(date_range))
            ELSE Zero
        reorder_row(r) ==
            LET v == daily_velocity(r.product_id)
                safety_stock == RMul(v, Int2Rat(safety_stock_days))
                cycle_demand == RMul(v, Int2Rat(reorder_cycle))
                lead_time_demand == RMul(v, r.lead_time_days)
            IN  [product_id |-> r.product_id, store_id |-> r.store_id,
                 stock_on_hand |-> r.stock_on_hand,
                 lead_time_days |-> r.lead_time_days,
                 daily_velocity |-> v,
                 safety_stock |-> safety_stock,
                 cycle_demand |-> cycle_demand,
                 lead_time_demand |-> lead_time_demand,
                 reorder_qty |->
                    clip_lower_zero(
                        RSub(RAdd(RAdd(safety_stock, cycle_demand),
                                  lead_time_demand),
                             r.stock_on_hand))]
    IN  [safety_stock_days |-> safety_stock_days,
         reorder_cycle |-> reorder_cycle,
         rows |-> [i \in 1..Len(filtered_inventory.rows) |->
                      reorder_row(filtered_inventory.rows[i])]]

ReorderSaleRows ==
    {SalesRow("ORD_1", x[1], x[2], "STORE_001", x[3], Int2Rat(100),
              Int2Rat(10), "Paid", Int2Rat(0)) :
        x \in {<<TimeText[1], "PROD_00001", Int2Rat(2)>>,
               <<TimeText[2], "PROD_00001", Int2Rat(3)>>,
               <<TimeText[6], "PROD_00001", Int2Rat(2)>>,
               <<TimeText[6], "PROD_00002", Int2Rat(3)>>,
               <<"not_a_time", "PROD_00001", Int2Rat(2)>>,
               <<TimeText[1], "PROD_00002", Null>>}}

ReorderInventoryRows ==
    {InventoryRow(DateText[1], x[1], "STORE_002", x[2], Int2Rat(20), x[3]) :
        x \in {<<"PROD_00001", Int2Rat(-5), Int2Rat(7)>>,
               <<"PROD_00001", Int2Rat(0), Int2Rat(7)>>,
               <<"PROD_00001", Int2Rat(15), Int2Rat(1)>>,
               <<"PROD_00001", Int2Rat(100), Int2Rat(7)>>,
               <<"PROD_00001", Null, Int2Rat(7)>>,
               <<"PROD_00002", Int2Rat(15), Int2Rat(7)>>,
               <<"PROD_00002", Int2Rat(-5), Null>>}}

ReorderFiles ==
    [GoodFiles EXCEPT
       !.sales = File(EXPECTED_COLUMNS.sales,
                    <<SalesRow("ORD_1", TimeText[1], "PROD_00001", "STORE_001",
                               Int2Rat(2), Int2Rat(100), Int2Rat(10), "Paid",
                               Int2Rat(0)),
                      SalesRow("ORD_2", TimeText[6], "PROD_00001", "STORE_001",
                               Int2Rat(3), Int2Rat(100), Int2Rat(10), "Paid",
                               Int2Rat(0))>>),
       !.inventory = File(EXPECTED_COLUMNS.inventory,
                        <<InventoryRow(DateText[1], "PROD_00001", "STORE_002",
                                       Int2Rat(-5), Int2Rat(20), Int2Rat(7)),
                          InventoryRow(DateText[1], "PROD_00002", "STORE_002",
                                       Int2Rat(15), Int2Rat(20), Int2Rat(7))>>)]

ReorderUploads ==
    {[ReorderFiles EXCEPT !.sales = File(EXPECTED_COLUMNS.sales, rows)] :
        rows \in SeqUpTo(ReorderSaleRows, MaxReorderSales)}
    \cup {[ReorderFiles EXCEPT
             !.inventory = File(EXPECTED_COLUMNS.inventory, rows)] :
             rows \in SeqUpTo(ReorderInventoryRows, MaxReorderInventory)}

InitReorder ==
    \E f \in ReorderUploads, now \in Clock :
        LET result == load_and_process_data(f, now)
        IN  /\ products = result.products
            /\ stores = result.stores
            /\ sales = result.sales
            /\ inventory = result.inventory
            /\ campaigns = result.campaigns
            /\ error = result.error
            /\ uploaded = f
            /\ NoSession /\ NothingFiltered
            /\ NothingCleaned /\ NothingComputed
            /\ pc = "loaded"

\* The "Reorder Analysis" tab with some choice in its two select boxes.
RenderReorderAnalysis ==
    /\ pc = "loaded"
    /\ error = None
    /\ \E safety_stock_days \in safety_stock_options,
          reorder_cycle \in reorder_cycle_options :
        /\ reorder_df' = reorder_analysis(inventory, sales, safety_stock_days,
                                          reorder_cycle)
        /\ pc' = "reordered"
        /\ UNCHANGED <<source_vars, clean_vars, kpi, sim, scenario_params, forecast,
                     inventory_view, uploaded, main_vars, filter_vars>>

NextReorder == RenderReorderAnalysis

SpecReorder == InitReorder /\ [][NextReorder]_<<vars, uploaded>>

\* ------------------------------------------- claims on the reorder analysis
RECURSIVE SumInt(_)
SumInt(s) == IF s = <<>> THEN 0 ELSE Head(s) + SumInt(Tail(s))

Max0(n) == IF n < 0 THEN 0 ELSE n

\* Units of product p sold on rows with a timestamp, as an integer.
UnitsSold(p) ==
    LET counted == SelectSeq(sales.rows,
                      LAMBDA r : /\ ~IsNull(r.order_time) /\ ~IsNull(r.qty)
                                 /\ r.product_id = p)
    IN  SumInt([i \in 1..Len(counted) |-> counted[i].qty[1]])

\* Whole days between the first and the last timestamp; 0 without one.
ObservedDays ==
    LET ticks == {sales.rows[i].order_time[1] :
                     i \in {j \in 1..Len(sales.rows) :
                               ~IsNull(sales.rows[j].order_time)}}
    IN  IF ticks = {} THEN 0 ELSE (SetMax(ticks) - SetMin(ticks)) \div 2

\* C5: no reorder_qty is negative; on a row whose stock and lead time are
\* numbers it is max(0, v*safety + v*cycle + v*lead - stock) with
\* v = units sold / observed days, read with both sides multiplied by the
\* days, and max(0, -stock) when the observed range is 0 days or there is
\* no timestamped sale; on a row with a missing stock or lead time it is NaN.
C5_ReorderQtyClipped ==
    pc = "reordered" =>
        /\ Len(reorder_df.rows) = Len(inventory.rows)
        /\ \A i \in 1..Len(inventory.rows) :
            LET r == inventory.rows[i]
                q == reorder_df.rows[i].reorder_qty
                total_days == reorder_df.safety_stock_days
                              + reorder_df.reorder_cycle
                              + r.lead_time_days[1]
            IN  /\ ~RLt(q, Zero)
                /\ IF IsNull(r.stock_on_hand) \/ IsNull(r.lead_time_days)
                   THEN IsNull(q)
                   ELSE /\ ~IsNull(q)
                        /\ IF ObservedDays > 0
                           THEN q[1] * ObservedDays =
                                  q[2] * Max0(UnitsSold(r.product_id) * total_days
                                              - r.stock_on_hand[1] * ObservedDays)
                           ELSE q = Int2Rat(Max0(-r.stock_on_hand[1]))

\* Sales over two days; a row with negative stock that is to be reordered
\* and a row whose stock covers the demand, clipped to 0.
C5_Witness ==
    /\ pc = "reordered"
    /\ ObservedDays > 0
    /\ \E i \in 1..Len(inventory.rows) :
          /\ RLt(inventory.rows[i].stock_on_hand, Zero)
          /\ RGt(reorder_df.rows[i].daily_velocity, Zero)
          /\ RGt(reorder_df.rows[i].reorder_qty, Zero)
    /\ \E i \in 1..Len(inventory.rows) :
          /\ RGt(inventory.rows[i].stock_on_hand, Zero)
          /\ reorder_df.rows[i].reorder_qty = Zero

\* -------------------------------------------------------------- simulator
\* The division without the guard: a mutant.
roi_unguarded(gain, budget) ==
    RMul(RDiv(gain, Int2Rat(budget)), Int2Rat(100))

\* if budget > 0: gain / budget * 100 else 0, for roi and for roi_margin.
roi_of(gain, budget) ==
    IF budget > 0 THEN RMul(RDiv(gain, Int2Rat(budget)), Int2Rat(100))
    ELSE Zero

\* The amount taken off the price instead of the price left: a mutant.
discount_amount(baseline_avg_price, discount_pct) ==
    RMul(baseline_avg_price, Rat(discount_pct, 100))

\* promo_price = baseline_avg_price * (1 - discount_pct / 100)
promo_price_of(baseline_avg_price, discount_pct) ==
    RMul(baseline_avg_price, RSub(Int2Rat(1), Rat(discount_pct, 100)))

\* Series.count(): the values that are not missing, repeats and all: a
\* mutant.
count_values(s) == Len(SelectSeq(s, LAMBDA x : x # NA))

\* Series.nunique(): the distinct values that are not missing.
nunique(s) == Cardinality(Range(s) \ {NA})

\* run_promotion_simulation(sales_df, products_df, params): the dict it
\* returns.  products_df is never read.
run_promotion_simulation(sales_df, params) ==
    LET valid_sales == SelectSeq(sales_df.rows, LAMBDA r : ~IsNull(r.order_time))
        by_city == IF params.city # "All"
                   THEN SelectSeq(valid_sales,
                                  LAMBDA r : r.city_clean = params.city)
                   ELSE valid_sales
        by_channel == IF params.channel # "All"
                      THEN SelectSeq(by_city,
                                     LAMBDA r : r.channel = params.channel)
                      ELSE by_city
        filtered_sales == IF params.category # "All"
                          THEN SelectSeq(by_channel,
                                         LAMBDA r : r.category = params.category)
                          ELSE by_channel
        some == Len(filtered_sales) > 0
        date_range == IF date_range_of(filtered_sales) < 1 THEN 1
                      ELSE date_range_of(filtered_sales)
        baseline_daily_revenue ==
            IF some THEN RDiv(RSum(Col(filtered_sales, "revenue")),
                              Int2Rat(date_range))
            ELSE Zero
        baseline_daily_units ==
            IF some THEN RDiv(RSum(Col(filtered_sales, "qty")),
                              Int2Rat(date_range))
            ELSE Zero
        baseline_daily_orders ==
            IF some THEN Rat(nunique(Col(filtered_sales, "order_id")), date_range)
            ELSE Zero
        baseline_avg_price ==
            IF some THEN RMean(Col(filtered_sales, "selling_price_aed"))
            ELSE Zero
        mean_cost == RMean(Col(filtered_sales, "unit_cost_aed"))
        avg_unit_cost ==
            IF "unit_cost_aed" \in sales_df.cols /\ ~IsNull(mean_cost)
            THEN mean_cost
            ELSE RMul(baseline_avg_price, Rat(55, 100))
        duration == Int2Rat(params.duration_days)
        promo_price == promo_price_of(baseline_avg_price, params.discount_pct)
        promo_daily_units == RMul(baseline_daily_units, params.lift_multiplier)
        promo_daily_orders == RMul(baseline_daily_orders, params.lift_multiplier)
        promo_daily_revenue == RMul(promo_daily_units, promo_price)
        promo_total_revenue == RMul(promo_daily_revenue, duration)
        promo_total_units == RMul(promo_daily_units, duration)
        promo_total_orders == RMul(promo_daily_orders, duration)
        baseline_total_revenue == RMul(baseline_daily_revenue, duration)
        baseline_total_units == RMul(baseline_daily_units, duration)
        baseline_total_orders == RMul(baseline_daily_orders, duration)
        incremental_revenue == RSub(promo_total_revenue, baseline_total_revenue)
        incremental_units == RSub(promo_total_units, baseline_total_units)
        incremental_orders == RSub(promo_total_orders, baseline_total_orders)
        baseline_margin ==
            RMul(RSub(baseline_avg_price, avg_unit_cost), baseline_total_units)
        promo_margin == RMul(RSub(promo_price, avg_unit_cost), promo_total_units)
        margin_impact ==
            RSub(RSub(promo_margin, baseline_margin), Int2Rat(params.budget))
        cannibalization_factor == Rat(15, 100)
    IN  [baseline_daily_revenue |-> baseline_daily_revenue,
         baseline_daily_units |-> baseline_daily_units,
         baseline_daily_orders |-> baseline_daily_orders,
         baseline_avg_price |-> baseline_avg_price,
         baseline_total_revenue |-> baseline_total_revenue,
         baseline_total_units |-> baseline_total_units,
         baseline_total_orders |-> baseline_total_orders,
         baseline_margin |-> baseline_margin,
         promo_price |-> promo_price,
         promo_daily_revenue |-> promo_daily_revenue,
         promo_daily_units |-> promo_daily_units,
         promo_total_revenue |-> promo_total_revenue,
         promo_total_units |-> promo_total_units,
         promo_total_orders |-> promo_total_orders,
         promo_margin |-> promo_margin,
         incremental_revenue |-> incremental_revenue,
         incremental_units |-> incremental_units,
         incremental_orders |-> incremental_orders,
         true_incremental_revenue |->
             RMul(incremental_revenue,
                  RSub(Int2Rat(1), cannibalization_factor)),
         true_incremental_units |->
             RMul(incremental_units, RSub(Int2Rat(1), cannibalization_factor)),
         margin_impact |-> margin_impact,
         roi |-> roi_of(RSub(incremental_revenue, Int2Rat(params.budget)),
                        params.budget),
         roi_margin |-> roi_of(margin_impact, params.budget),
         budget |-> params.budget,
         avg_unit_cost |-> avg_unit_cost,
         discount_pct |-> params.discount_pct,
         duration_days |-> params.duration_days,
         lift_multiplier |-> params.lift_multiplier,
         cannibalization_factor |-> cannibalization_factor]

\* The scenario parameters of the model.  The page's own inputs keep the
\* budget between 10000 and 500000; the function takes any number, and 0 is
\* the value its guard is written for.
ScenarioParams ==
    [city : {"All", "Dubai"}, channel : {"All", "App"},
     category : {"All", "Electronics"},
     discount_pct : {5, 20, 50}, duration_days : {1, 7},
     lift_multiplier : {Int2Rat(1), Rat(3, 2), Int2Rat(3)},
     budget : {0, 10000, 50000}]

SimSaleRows ==
    {SalesRow(x[1], x[2], "PROD_00001", x[3], x[4], x[5], Int2Rat(10),
              "Paid", Int2Rat(0)) :
        x \in {<<"ORD_1", TimeText[1], "STORE_001", Int2Rat(50), Int2Rat(100)>>,
               <<"ORD_2", TimeText[6], "STORE_002", Int2Rat(3), Rat(25, 2)>>,
               <<"ORD_3", "not_a_time", "STORE_001", Int2Rat(2), Int2Rat(100)>>}}
    \cup
    {SalesRow(x[1], x[2], "PROD_00002", x[3], x[4], x[5], Int2Rat(10),
              "Paid", Int2Rat(0)) :
        x \in {<<"ORD_4", TimeText[1], "STORE_001", Int2Rat(2), Null>>,
               <<"ORD_5", TimeText[3], "STORE_002", Int2Rat(1), Int2Rat(40)>>}}

SimUploads ==
    {[GoodFiles EXCEPT !.sales = File(EXPECTED_COLUMNS.sales, rows)] :
        rows \in SeqUpTo(SimSaleRows, MaxSimSales)}

InitSim ==
    \E f \in SimUploads, now \in Clock :
        LET result == load_and_process_data(f, now)
        IN  /\ products = result.products
            /\ stores = result.stores
            /\ sales = result.sales
            /\ inventory = result.inventory
            /\ campaigns = result.campaigns
            /\ error = result.error
            /\ uploaded = f
            /\ NoSession /\ NothingFiltered
            /\ NothingCleaned /\ NothingComputed
            /\ pc = "loaded"

\* The "Run Simulation" button of the what-if page.
RunPromotionSimulation ==
    /\ pc = "loaded"
    /\ error = None
    /\ \E scenario \in ScenarioParams :
        /\ sim' = run_promotion_simulation(sales, scenario)
        /\ scenario_params' = scenario
        /\ pc' = "simulated"
        /\ UNCHANGED <<source_vars, clean_vars, kpi, reorder_df, forecast,
                     inventory_view, uploaded, main_vars, filter_vars>>

NextSim == RunPromotionSimulation

SpecSim == InitSim /\ [][NextSim]_<<vars, uploaded>>

\* ------------------------------------------------- claims on the simulator
\* C6: with a budget above 0 the returned roi is
\* (incremental_revenue - budget) / budget * 100, read as
\* roi * budget = (incremental_revenue - budget) * 100 (NaN exactly when
\* incremental_revenue is NaN); with a budget of 0, roi and roi_margin are 0
\* and nothing was divided by the budget.
C6_RoiFormula ==
    pc = "simulated" =>
        IF sim.budget > 0
        THEN IF IsNull(sim.incremental_revenue) THEN IsNull(sim.roi)
             ELSE /\ ~IsNull(sim.roi)
                  /\ RMul(sim.roi, Int2Rat(sim.budget))
                       = RMul(RSub(sim.incremental_revenue,
                                   Int2Rat(sim.budget)), Int2Rat(100))
        ELSE sim.roi = Zero /\ sim.roi_margin = Zero

\* A positive budget with sales behind the baseline and a lift.
C6_Witness ==
    /\ pc = "simulated"
    /\ sim.budget > 0
    /\ RGt(sim.incremental_revenue, Zero)
    /\ sim.roi # Zero /\ ~IsNull(sim.roi)

\* The rows of the loaded sales table a scenario targets: a valid
\* order_time, and every dimension of the scenario that is not 'All' equal
\* to the row's.
Segment ==
    SelectSeq(sales.rows,
              LAMBDA r :
                  /\ ~IsNull(r.order_time)
                  /\ scenario_params.city \in {"All", r.city_clean}
                  /\ scenario_params.channel \in {"All", r.channel}
                  /\ scenario_params.category \in {"All", r.category})

\* max(1, days between the first and the last order of the segment).
SegmentDays ==
    LET ticks == {Segment[i].order_time[1] : i \in 1..Len(Segment)}
        span == (SetMax(ticks) - SetMin(ticks)) \div 2
    IN  IF span < 1 THEN 1 ELSE span

\* C17: the baseline of a simulation comes from exactly the rows of the
\* segment: daily revenue, units and orders are sum(revenue), sum(qty) and
\* the number of distinct order_id over max(1, days); an empty segment gives
\* 0 for all three.
C17_BaselineFromSegment ==
    pc = "simulated" =>
        IF Segment = <<>>
        THEN /\ sim.baseline_daily_revenue = Zero
             /\ sim.baseline_daily_units = Zero
             /\ sim.baseline_daily_orders = Zero
        ELSE /\ sim.baseline_daily_revenue =
                    RDiv(RSum(Col(Segment, "revenue")), Int2Rat(SegmentDays))
             /\ sim.baseline_daily_units =
                    RDiv(RSum(Col(Segment, "qty")), Int2Rat(SegmentDays))
             /\ sim.baseline_daily_orders =
                    Rat(Cardinality({Segment[i].order_id :
                                        i \in 1..Len(Segment)}),
                        SegmentDays)

\* A scenario on Dubai, the App channel and Electronics over two rows, one
\* of them in the segment and one outside it.
C17_Witness ==
    /\ pc = "simulated"
    /\ scenario_params.city = "Dubai"
    /\ scenario_params.channel = "App"
    /\ scenario_params.category = "Electronics"
    /\ Len(sales.rows) = 2
    /\ Len(Segment) = 1
    /\ sim.baseline_daily_revenue = Int2Rat(5000)
    /\ sim.baseline_daily_orders = Int2Rat(1)

\* The scenario of the worked example: an average price of 100, 50 units
\* and a revenue of 5000 a day, a discount of 20 percent, a lift of 1.5,
\* 7 days and a budget of 50000.
WorkedExample ==
    /\ sim.baseline_avg_price = Int2Rat(100)
    /\ sim.baseline_daily_units = Int2Rat(50)
    /\ sim.baseline_daily_revenue = Int2Rat(5000)
    /\ sim.discount_pct = 20
    /\ sim.lift_multiplier = Rat(3, 2)
    /\ sim.duration_days = 7
    /\ sim.budget = 50000

\* C18: promo_price = avg_price * (1 - discount / 100),
\* promo_total_revenue = baseline_daily_units * lift * promo_price * duration,
\* baseline_total_revenue = baseline_daily_revenue * duration and
\* incremental_revenue is their difference; the worked example gives a
\* promo price of 80, a promo revenue of 42000, an incremental revenue of
\* 7000 and an roi of -86.
C18_PromoArithmetic ==
    pc = "simulated" =>
        /\ sim.promo_price =
               RSub(sim.baseline_avg_price,
                    RDiv(RMul(sim.baseline_avg_price, Int2Rat(sim.discount_pct)),
                         Int2Rat(100)))
        /\ sim.promo_total_revenue =
               RMul(RMul(RMul(sim.baseline_daily_units, sim.lift_multiplier),
                         sim.promo_price),
                    Int2Rat(sim.duration_days))
        /\ sim.baseline_total_revenue =
               RMul(sim.baseline_daily_revenue, Int2Rat(sim.duration_days))
        /\ sim.incremental_revenue =
               RSub(sim.promo_total_revenue, sim.baseline_total_revenue)
        /\ WorkedExample =>
               /\ sim.promo_price = Int2Rat(80)
               /\ sim.promo_total_revenue = Int2Rat(42000)
               /\ sim.incremental_revenue = Int2Rat(7000)
               /\ sim.roi = Int2Rat(-86)

\* The worked example has run.
C18_Witness == pc = "simulated" /\ WorkedExample

\* No row of the segment has a unit cost.
CostMissing == \A i \in 1..Len(Segment) : IsNull(Segment[i].unit_cost_aed)

\* C19 as stated: margin_impact = promo_margin - baseline_margin - budget;
\* when no row of the segment has a unit cost the cost used is 0.55 times
\* the average price; and the avg_unit_cost returned is never null.
C19_CostFallbackNeverNull ==
    pc = "simulated" =>
        /\ sim.margin_impact =
               RSub(RSub(sim.promo_margin, sim.baseline_margin),
                    Int2Rat(sim.budget))
        /\ CostMissing =>
               sim.avg_unit_cost = RMul(sim.baseline_avg_price, Rat(55, 100))
        /\ ~IsNull(sim.avg_unit_cost)

\* -------------------------------------------------------------------- KPIs
\* groupby('category') lists its keys in sorted order, and idxmax takes the
\* first of the largest.
CategoryOrder == <<"Electronics", "Fashion">>

\* (mask).sum() and len(frame) as numbers.
Count(rows) == Int2Rat(Len(rows))

Percent(x) == RMul(x, Int2Rat(100))

\* Every row of the table, whatever its snapshot: a mutant.
all_snapshots(inventory_df) == inventory_df.rows

\* inventory_df[inventory_df['snapshot_date'] == snapshot_date.max()]: max
\* skips NaT and is NaT when there is no snapshot date; no row equals NaT.
latest_snapshot(inventory_df) ==
    LET snapshots == {inventory_df.rows[i].snapshot_date[1] :
                         i \in {j \in 1..Len(inventory_df.rows) :
                                   ~IsNull(inventory_df.rows[j].snapshot_date)}}
    IN  IF snapshots = {} THEN <<>>
        ELSE SelectSeq(inventory_df.rows,
                       LAMBDA r : r.snapshot_date = <<SetMax(snapshots)>>)

\* calculate_kpi_metrics: the dict it returns.
calculate_kpi_metrics(sales_df, inventory_df, products_df, campaigns_df) ==
    LET valid_sales == SelectSeq(sales_df.rows, LAMBDA r : ~IsNull(r.order_time))
        n_valid == Int2Rat(Len(valid_sales))
        total_revenue == RSum(Col(valid_sales, "revenue"))
        total_orders == nunique(Col(valid_sales, "order_id"))
        total_qty == RSum(Col(valid_sales, "qty"))
        paid_orders == SelectSeq(valid_sales, LAMBDA r : r.payment_status = "Paid")
        latest_inventory == latest_snapshot(inventory_df)
        healthy_stock_count ==
            Count(SelectSeq(latest_inventory, LAMBDA r : r.stock_status = "Healthy"))
        revenue_of_category(c) ==
            RSum(Col(SelectSeq(valid_sales, LAMBDA r : r.category = c), "revenue"))
        groups == SelectSeq(CategoryOrder,
                     LAMBDA c : \E i \in 1..Len(valid_sales) :
                                     valid_sales[i].category = c)
        date_range == date_range_of(valid_sales)
    IN  [total_revenue |-> total_revenue,
         paid_revenue |-> RSum(Col(paid_orders, "revenue")),
         daily_avg_revenue |->
             IF Len(valid_sales) > 0
             THEN IF date_range > 0
                  THEN RDiv(total_revenue, Int2Rat(date_range))
                  ELSE total_revenue
             ELSE Zero,
         avg_order_value |->
             IF total_orders > 0 THEN RDiv(total_revenue, Int2Rat(total_orders))
             ELSE Zero,
         total_orders |-> Int2Rat(total_orders),
         total_qty |-> total_qty,
         daily_avg_orders |->
             IF Len(valid_sales) > 0
             THEN IF date_range > 0 THEN Rat(total_orders, date_range)
                  ELSE Int2Rat(total_orders)
             ELSE Zero,
         avg_qty_per_order |->
             IF total_orders > 0 THEN RDiv(total_qty, Int2Rat(total_orders))
             ELSE Zero,
         refund_rate |->
             IF Len(valid_sales) > 0
             THEN Percent(RDiv(Count(SelectSeq(valid_sales,
                                   LAMBDA r : r.payment_status = "Refunded")),
                               n_valid))
             ELSE Zero,
         return_rate |->
             IF Len(paid_orders) > 0
             THEN Percent(RMean(Col(paid_orders, "return_flag")))
             ELSE Zero,
         avg_discount |-> RMean(Col(valid_sales, "discount_pct")),
         discounted_orders_pct |->
             IF Len(valid_sales) > 0
             THEN Percent(RDiv(Count(SelectSeq(valid_sales,
                                   LAMBDA r : RGt(r.discount_pct, Zero))),
                               n_valid))
             ELSE Zero,
         total_stock |-> RSum(Col(latest_inventory, "stock_on_hand")),
         low_stock_count |->
             Count(SelectSeq(latest_inventory,
                     LAMBDA r : r.stock_status \in {"Critical", "Low"})),
         healthy_stock_count |-> healthy_stock_count,
         stock_health_pct |->
             IF Len(latest_inventory) > 0
             THEN Percent(RDiv(healthy_stock_count,
                               Int2Rat(Len(latest_inventory))))
             ELSE Zero,
         negative_stock_count |->
             Count(SelectSeq(latest_inventory, LAMBDA r : r.is_negative)),
         extreme_stock_count |->
             Count(SelectSeq(latest_inventory, LAMBDA r : r.is_extreme)),
         active_campaigns |->
             IF "is_active" \in campaigns_df.cols
             THEN Count(SelectSeq(campaigns_df.rows, LAMBDA r : r.is_active))
             ELSE Zero,
         total_campaign_budget |-> RSum(Col(campaigns_df.rows, "promo_budget_aed")),
         avg_campaign_discount |-> RMean(Col(campaigns_df.rows, "discount_pct")),
         total_products |-> Int2Rat(Len(products_df.rows)),
         new_products |->
             IF "launch_flag" \in products_df.cols
             THEN Count(SelectSeq(products_df.rows, LAMBDA r : r.launch_flag = "New"))
             ELSE Zero,
         top_category |->
             IF Len(groups) > 0
             THEN groups[CHOOSE i \in 1..Len(groups) :
                            /\ \A j \in 1..Len(groups) :
                                  RLe(revenue_of_category(groups[j]),
                                      revenue_of_category(groups[i]))
                            /\ \A j \in 1..(i - 1) :
                                  RLt(revenue_of_category(groups[j]),
                                      revenue_of_category(groups[i]))]
             ELSE "N/A"]

KpiSaleRows ==
    {SalesRow("ORD_1", t, "PROD_00001", "STORE_001", Int2Rat(2), Int2Rat(100),
              d, status, Int2Rat(0)) :
        t \in {TimeText[1], TimeText[6], "not_a_time"},
        d \in {Null, Int2Rat(10)},
        status \in {"Paid", "Refunded"}}

KpiUploads ==
    {[GoodFiles EXCEPT !.sales = File(EXPECTED_COLUMNS.sales, rows)] :
        rows \in SeqUpTo(KpiSaleRows, MaxKpiSales)}
    \cup {[GoodFiles EXCEPT !.campaigns = File(EXPECTED_COLUMNS.campaigns, <<>>)]}
    \cup {[GoodFiles EXCEPT
             !.inventory = File(EXPECTED_COLUMNS.inventory,
                              <<InventoryRow("N/A", "PROD_00001", "STORE_002",
                                             Int2Rat(15), Int2Rat(20),
                                             Int2Rat(7))>>)]}

InitKpi ==
    \E f \in KpiUploads, now \in Clock :
        LET result == load_and_process_data(f, now)
        IN  /\ products = result.products
            /\ stores = result.stores
            /\ sales = result.sales
            /\ inventory = result.inventory
            /\ campaigns = result.campaigns
            /\ error = result.error
            /\ uploaded = f
            /\ NoSession /\ NothingFiltered
            /\ NothingCleaned /\ NothingComputed
            /\ pc = "loaded"

\* The overview page computes the KPIs of the loaded tables.
CalculateKpiMetrics ==
    /\ pc = "loaded"
    /\ error = None
    /\ kpi' = calculate_kpi_metrics(sales, inventory, products, campaigns)
    /\ pc' = "kpi"
    /\ UNCHANGED <<source_vars, clean_vars, sim, reorder_df, scenario_params,
                 forecast, inventory_view, uploaded, main_vars, filter_vars>>

NextKpi == CalculateKpiMetrics

SpecKpi == InitKpi /\ [][NextKpi]_<<vars, uploaded>>

\* ------------------------------------------------------ claims on the KPIs
NoValidSales == \A i \in 1..Len(sales.rows) : IsNull(sales.rows[i].order_time)

\* C7: with no sales row that has a valid order_time every ratio and mean
\* metric over the sales is 0, and with no campaign the average campaign
\* discount is 0: none of them is NaN.
C7_EmptySelectionGivesZero ==
    pc = "kpi" =>
        /\ NoValidSales =>
              /\ kpi.avg_order_value = Zero
              /\ kpi.avg_qty_per_order = Zero
              /\ kpi.refund_rate = Zero
              /\ kpi.return_rate = Zero
              /\ kpi.avg_discount = Zero
              /\ kpi.discounted_orders_pct = Zero
              /\ kpi.daily_avg_revenue = Zero
              /\ kpi.daily_avg_orders = Zero
        /\ Len(campaigns.rows) = 0 => kpi.avg_campaign_discount = Zero
        /\ (\A i \in 1..Len(inventory.rows) :
                IsNull(inventory.rows[i].snapshot_date)) =>
              kpi.stock_health_pct = Zero


\* ---------------------------------------------------------- demand forecast
forecast_horizons == {7, 14, 30}

\* The distinct days of the rows, ascending: the index of
\* groupby(order_time.dt.date), which leaves out the rows without a day.
dates_of(rows) ==
    LET S == {days(rows[i].order_time[1]) :
                 i \in {j \in 1..Len(rows) : ~IsNull(rows[j].order_time)}}
    IN  [k \in 1..Cardinality(S) |->
            CHOOSE d \in S : Cardinality({e \in S : e < d}) = k - 1]

\* daily_sales: units, revenue and distinct orders of each day.
daily_sales_of(rows) ==
    LET dates == dates_of(rows)
        on(d) == SelectSeq(rows, LAMBDA r : /\ ~IsNull(r.order_time)
                                            /\ days(r.order_time[1]) = d)
    IN  [k \in 1..Len(dates) |->
            [date |-> dates[k],
             units |-> RSum(Col(on(dates[k]), "qty")),
             revenue |-> RSum(Col(on(dates[k]), "revenue")),
             orders |-> Int2Rat(nunique(Col(on(dates[k]), "order_id")))]]

\* Every trend factor, whatever the history: a mutant.
trend_factor_flat(daily_sales) == Int2Rat(1)

\* The last 14 days against the 14 before them; 1 with fewer than 28 days.
trend_factor_of(daily_sales) ==
    LET n == Len(daily_sales)
        units == Col(daily_sales, "units")
    IN  IF n >= 28
        THEN LET recent == RMean(SubSeq(units, n - 13, n))
                 previous == RMean(SubSeq(units, n - 27, n - 14))
             IN  IF RGt(previous, Zero) THEN RDiv(recent, previous)
                 ELSE Int2Rat(1)
        ELSE Int2Rat(1)

InsufficientData(selected_category, forecast_days) ==
    [selected_category |-> selected_category, forecast_days |-> forecast_days,
     insufficient |-> TRUE]

\* The powers trend_factor ** (i/14) that are rational: those of 1 and of 0
\* and those with a whole exponent.
exact_power(trend_factor, i) ==
    i \in {0, 14, 28} \/ trend_factor \in {Int2Rat(1), Zero}

\* trend_factor ** (i/14); a power that is not rational is kept as the pair
\* of its factor and its exponent.
power(trend_factor, i) ==
    IF i = 0 \/ trend_factor = Int2Rat(1) THEN Int2Rat(1)
    ELSE IF i = 14 \/ trend_factor = Zero THEN trend_factor
    ELSE IF i = 28 THEN RMul(trend_factor, trend_factor)
    ELSE [factor |-> trend_factor, exponent |-> Rat(i, 14)]

\* avg * (trend_factor ** (i/14)).
forecasted(avg, trend_factor, i) ==
    IF exact_power(trend_factor, i) THEN RMul(avg, power(trend_factor, i))
    ELSE [times |-> avg, power |-> power(trend_factor, i)]

\* sum() of the forecast column of this average.
forecast_sum(avg, trend_factor, forecast_days) ==
    LET values == [k \in 1..forecast_days |->
                      forecasted(avg, trend_factor, k - 1)]
    IN  IF \A k \in 1..forecast_days : exact_power(trend_factor, k - 1)
        THEN RSum(values)
        ELSE [sum |-> values]

\* What the forecast shows of these rows.
forecast_of(rows, selected_category, forecast_days) ==
    LET daily_sales == daily_sales_of(rows)
        avg_daily_units == RMean(Col(daily_sales, "units"))
        avg_daily_revenue == RMean(Col(daily_sales, "revenue"))
        trend_factor == trend_factor_of(daily_sales)
        forecast_df ==
            [k \in 1..forecast_days |->
                [forecasted_units |->
                     forecasted(avg_daily_units, trend_factor, k - 1),
                 forecasted_revenue |->
                     forecasted(avg_daily_revenue, trend_factor, k - 1)]]
    IN  [selected_category |-> selected_category,
         forecast_days |-> forecast_days,
         insufficient |-> FALSE,
         daily_sales |-> daily_sales,
         avg_daily_units |-> avg_daily_units,
         avg_daily_revenue |-> avg_daily_revenue,
         avg_daily_orders |-> RMean(Col(daily_sales, "orders")),
         trend_factor |-> trend_factor,
         last_date |-> IF daily_sales = <<>> THEN Null
                       ELSE <<2 * daily_sales[Len(daily_sales)].date>>,
         forecast_df |-> forecast_df,
         total_forecast_units |->
             forecast_sum(avg_daily_units, trend_factor, forecast_days),
         total_forecast_revenue |->
             forecast_sum(avg_daily_revenue, trend_factor, forecast_days)]

\* The forecast without its filter on order_time, the days left to the
\* groupby alone: a mutant.
demand_forecast_unfiltered(sales_df, selected_category, forecast_days) ==
    LET of_category ==
            IF selected_category # "All"
            THEN SelectSeq(sales_df.rows,
                           LAMBDA r : r.category = selected_category)
            ELSE sales_df.rows
    IN  IF Len(of_category) = 0
        THEN InsufficientData(selected_category, forecast_days)
        ELSE forecast_of(of_category, selected_category, forecast_days)

\* render_demand_forecast(inventory_df, sales_df, selected_category) with
\* the horizon picked in its select box.  inventory_df is never read.
render_demand_forecast(sales_df, selected_category, forecast_days) ==
    LET valid_sales == SelectSeq(sales_df.rows, LAMBDA r : ~IsNull(r.order_time))
        of_category ==
            IF selected_category # "All"
            THEN SelectSeq(valid_sales,
                           LAMBDA r : r.category = selected_category)
            ELSE valid_sales
    IN  IF Len(of_category) = 0
        THEN InsufficientData(selected_category, forecast_days)
        ELSE forecast_of(of_category, selected_category, forecast_days)

\* The "Demand Forecast" tab with some category and horizon.
RenderDemandForecast ==
    /\ pc = "loaded"
    /\ error = None
    /\ \E selected_category \in {"All", "Electronics"},
          forecast_days \in forecast_horizons :
        /\ forecast' = render_demand_forecast(sales, selected_category,
                                              forecast_days)
        /\ pc' = "forecast"
        /\ UNCHANGED <<source_vars, clean_vars, kpi, sim, reorder_df,
                       scenario_params, inventory_view, uploaded, main_vars, filter_vars>>

\* The sales the four computations are set side by side on: an order of
\* each category on different days and an order without a timestamp.
MetricsSaleRows == {r \in SimSaleRows : r.order_id \in {"ORD_1", "ORD_3", "ORD_5"}}

MetricsUploads ==
    {[GoodFiles EXCEPT !.sales = File(EXPECTED_COLUMNS.sales, rows)] :
        rows \in SeqUpTo(MetricsSaleRows, MaxMetricsSales)}

InitMetrics ==
    \E f \in MetricsUploads, now \in Clock :
        LET result == load_and_process_data(f, now)
        IN  /\ products = result.products
            /\ stores = result.stores
            /\ sales = result.sales
            /\ inventory = result.inventory
            /\ campaigns = result.campaigns
            /\ error = result.error
            /\ uploaded = f
            /\ NoSession /\ NothingFiltered
            /\ NothingCleaned /\ NothingComputed
            /\ pc = "loaded"

\* The four computations over the sales of one upload.
NextMetrics ==
    \/ CalculateKpiMetrics
    \/ RunPromotionSimulation
    \/ RenderReorderAnalysis
    \/ RenderDemandForecast

SpecMetrics == InitMetrics /\ [][NextMetrics]_<<vars, uploaded>>

\* ------------------------------------- claims on rows without an order_time
\* The loaded sales table without its rows that have no order_time.
WithoutNullTimes ==
    [sales EXCEPT !.rows = SelectSeq(@, LAMBDA r : ~IsNull(r.order_time))]

\* The loaded sales table with one more row that has no order_time: a copy
\* of row i, in front of the table or behind it.
WithNullTimes ==
    {[sales EXCEPT !.rows = <<[sales.rows[i] EXCEPT !.order_time = Null]>> \o @] :
        i \in 1..Len(sales.rows)}
    \cup
    {[sales EXCEPT !.rows = Append(@, [sales.rows[i] EXCEPT !.order_time = Null])] :
        i \in 1..Len(sales.rows)}

render_inventory_kpis(filtered_inventory) ==
    LET status(x) == Len(SelectSeq(filtered_inventory,
                                   LAMBDA r : r.stock_status = x))
        total_items == Len(filtered_inventory)
    IN  [total_stock |-> RSum(Col(filtered_inventory, "stock_on_hand")),
         total_skus |-> nunique(Col(filtered_inventory, "product_id")),
         healthy_count |-> status("Healthy"),
         low_count |-> status("Low"),
         critical_count |-> status("Critical"),
         health_pct |->
             IF total_items > 0 THEN Percent(Rat(status("Healthy"), total_items))
             ELSE Zero,
         avg_lead_time |-> RMean(Col(filtered_inventory, "lead_time_days")),
         negative_stock_count |->
             Len(SelectSeq(filtered_inventory,
                           LAMBDA r : RLt(r.stock_on_hand, Zero))),
         extreme_stock_count |->
             Len(SelectSeq(filtered_inventory,
                           LAMBDA r : RGt(r.stock_on_hand, Int2Rat(9000))))]

\* render_inventory_analysis with a choice in its four select boxes: the
\* rows of the current view and the KPIs over them (None for the empty
\* state).
render_inventory_analysis(inventory_df, selected) ==
    LET latest == latest_snapshot(inventory_df)
        filtered_inventory ==
            SelectSeq(latest,
                      LAMBDA r :
                          /\ selected.city \in {"All", r.city_clean}
                          /\ selected.channel \in {"All", r.channel}
                          /\ selected.category \in {"All", r.category}
                          /\ selected.status \in {"All", r.stock_status})
    IN  [selected |-> selected,
         total_inventory_records |-> Len(latest),
         filtered_inventory |-> filtered_inventory,
         kpis |-> IF Len(filtered_inventory) = 0 THEN None
                  ELSE render_inventory_kpis(filtered_inventory)]

InventorySelections ==
    [city : {"All", "Dubai"}, channel : {"All"}, category : {"All"},
     status : {"All", "Healthy", "Critical"}]

\* Snapshots of two days, and one without a date, over two stores.
SnapshotRows ==
    {InventoryRow(x[1], "PROD_00001", x[2], x[3], Int2Rat(20), Int2Rat(7)) :
        x \in {<<DateText[1], "STORE_001", Int2Rat(-5)>>,
               <<DateText[1], "STORE_002", Int2Rat(25)>>,
               <<DateText[2], "STORE_001", Int2Rat(25)>>,
               <<DateText[2], "STORE_002", Int2Rat(9999)>>,
               <<"N/A", "STORE_001", Int2Rat(15)>>}}

SnapshotUploads ==
    {[GoodFiles EXCEPT !.inventory = File(EXPECTED_COLUMNS.inventory, rows)] :
        rows \in SeqUpTo(SnapshotRows, MaxSnapshotRows)}

InitInventory ==
    \E f \in SnapshotUploads, now \in Clock :
        LET result == load_and_process_data(f, now)
        IN  /\ products = result.products
            /\ stores = result.stores
            /\ sales = result.sales
            /\ inventory = result.inventory
            /\ campaigns = result.campaigns
            /\ error = result.error
            /\ uploaded = f
            /\ NoSession /\ NothingFiltered
            /\ NothingCleaned /\ NothingComputed
            /\ pc = "loaded"

\* The "Inventory Health" tab with some choice in its select boxes.
RenderInventoryAnalysis ==
    /\ pc = "loaded"
    /\ error = None
    /\ \E selected \in InventorySelections :
        /\ inventory_view' = render_inventory_analysis(inventory, selected)
        /\ pc' = "inventory"
        /\ UNCHANGED <<source_vars, clean_vars, kpi, sim, reorder_df,
                       scenario_params, forecast, uploaded, main_vars, filter_vars>>

NextInventory == CalculateKpiMetrics \/ RenderInventoryAnalysis

SpecInventory == InitInventory /\ [][NextInventory]_<<vars, uploaded>>

\* --------------------------------------------- claims on the latest snapshot
\* The snapshot dates of the loaded inventory table.
SnapshotDates ==
    {inventory.rows[i].snapshot_date : i \in 1..Len(inventory.rows)} \ {Null}

\* The loaded inventory table without the rows of a snapshot before the
\* last one.
WithoutEarlierSnapshots ==
    [inventory EXCEPT !.rows =
        SelectSeq(@, LAMBDA r :
            \/ IsNull(r.snapshot_date)
            \/ \A d \in SnapshotDates : d[1] <= r.snapshot_date[1])]

InventoryKpis ==
    {"total_stock", "low_stock_count", "healthy_stock_count",
     "stock_health_pct", "negative_stock_count", "extreme_stock_count"}

\* C21: the inventory KPIs of calculate_kpi_metrics and the current view of
\* the inventory tab are what they are on the table without the rows of
\* earlier snapshots, and the rows of the view all carry the last snapshot
\* date.
C21_OnlyLatestSnapshotCounts ==
    /\ pc = "kpi" =>
           \A k \in InventoryKpis :
               kpi[k] = calculate_kpi_metrics(sales, WithoutEarlierSnapshots,
                                              products, campaigns)[k]
    /\ pc = "inventory" =>
           /\ inventory_view =
                  render_inventory_analysis(WithoutEarlierSnapshots,
                                            inventory_view.selected)
           /\ \A i \in 1..Len(inventory_view.filtered_inventory) :
                  LET r == inventory_view.filtered_inventory[i]
                  IN  /\ r.snapshot_date \in SnapshotDates
                      /\ \A d \in SnapshotDates : d[1] <= r.snapshot_date[1]

\* The tab over a table with a negative stock in the first snapshot and a
\* row of the second.
C21_Witness ==
    /\ pc = "inventory"
    /\ Cardinality(SnapshotDates) = 2
    /\ \E i \in 1..Len(inventory.rows) : inventory.rows[i].is_negative
    /\ inventory_view.kpis # None
    /\ inventory_view.kpis.negative_stock_count = 0


\* ------------------------------------------------------- forecast trend
\* The longest history of the trend check, in days with sales.
MaxHistoryDays == 29

\* The histories: one order a day over n days, each day of the last 14
\* selling `recent` units, each of the 14 before `previous`, every older day
\* 5, and the last day `spike` more.
HistoryLengths == {1, 14, 27, 28, MaxHistoryDays}

history(n, recent, previous, spike) ==
    [k \in 1..n |->
        SalesRow("ORD_" \o ToString(k), DateText[k], "PROD_00001",
                 "STORE_001",
                 Int2Rat((IF k > n - 14 THEN recent
                          ELSE IF k > n - 28 THEN previous ELSE 5)
                         + (IF k = n THEN spike ELSE 0)),
                 Int2Rat(100), Int2Rat(0), "Paid", Int2Rat(0))]

TrendUploads ==
    {[GoodFiles EXCEPT !.sales =
          File(EXPECTED_COLUMNS.sales, history(n, recent, previous, spike))] :
        n \in HistoryLengths, recent \in {0, 1, 3}, previous \in {-1, 0, 1, 2},
        spike \in {0, 14}}

InitTrend ==
    \E f \in TrendUploads, now \in Clock :
        LET result == load_and_process_data(f, now)
        IN  /\ products = result.products
            /\ stores = result.stores
            /\ sales = result.sales
            /\ inventory = result.inventory
            /\ campaigns = result.campaigns
            /\ error = result.error
            /\ uploaded = f
            /\ NoSession /\ NothingFiltered
            /\ NothingCleaned /\ NothingComputed
            /\ pc = "loaded"

\* The demand forecast over the sales of one upload.
NextTrend == RenderDemandForecast

SpecTrend == InitTrend /\ [][NextTrend]_<<vars, uploaded>>

\* The sales rows the forecast is made of: those with an order_time, of the
\* selected category.
ForecastRows ==
    SelectSeq(sales.rows,
              LAMBDA r : /\ ~IsNull(r.order_time)
                         /\ forecast.selected_category # "All"
                                => r.category = forecast.selected_category)

\* The days of the history, and the units sold on a set of them.
HistoryDays == {days(ForecastRows[i].order_time[1]) : i \in 1..Len(ForecastRows)}

UnitsOn(D) ==
    RSum(Col(SelectSeq(ForecastRows,
                       LAMBDA r : days(r.order_time[1]) \in D), "qty"))

\* The k latest days of the history but for the `skip` latest.
LatestDays(k, skip) ==
    {d \in HistoryDays :
        LET later == Cardinality({e \in HistoryDays : e > d})
        IN  skip <= later /\ later < skip + k}

\* C23: the trend factor of the demand forecast is the mean units of the
\* last 14 daily rows over the mean of the 14 before them when the history
\* has at least 28 days and the earlier mean is positive, and exactly 1
\* otherwise; with a trend factor of 1 every forecast day carries the
\* historical daily average.
C23_TrendFactor ==
    (pc = "forecast" /\ ~forecast.insufficient) =>
        LET recent == RDiv(UnitsOn(LatestDays(14, 0)), Int2Rat(14))
            previous == RDiv(UnitsOn(LatestDays(14, 14)), Int2Rat(14))
            average == RDiv(UnitsOn(HistoryDays),
                            Int2Rat(Cardinality(HistoryDays)))
        IN  /\ forecast.trend_factor =
                   IF Cardinality(HistoryDays) >= 28 /\ RGt(previous, Zero)
                   THEN RDiv(recent, previous)
                   ELSE Int2Rat(1)
            /\ forecast.trend_factor = Int2Rat(1) =>
                   /\ Len(forecast.forecast_df) = forecast.forecast_days
                   /\ \A k \in 1..forecast.forecast_days :
                          forecast.forecast_df[k].forecasted_units = average

\* A forecast over 28 days or more whose last 14 days sold otherwise than
\* the 14 before.
C23_Witness ==
    /\ pc = "forecast"
    /\ ~forecast.insufficient
    /\ Len(forecast.daily_sales) >= 28
    /\ forecast.trend_factor \notin {Int2Rat(1), Zero}

\* A forecast over fewer than 28 days.
C23_WitnessShortHistory ==
    /\ pc = "forecast"
    /\ ~forecast.insufficient
    /\ Len(forecast.daily_sales) = 27
    /\ forecast.trend_factor = Int2Rat(1)


\* ------------------------------------------- claims on the fixed columns
\* C24: after the 'Standardize city names' fix every city of the cleaned
\* stores table is one of Dubai, Abu Dhabi and Sharjah: a key of
\* CITY_MAPPING has become its standard name, a standard name has stayed,
\* and every other value has become Dubai.
C24_CitiesStandardized ==
    (pc = "cleaned" /\ "cities" \in FixesRun) =>
        /\ Len(clean_stores.rows) = Len(stores.rows)
        /\ \A i \in 1..Len(stores.rows) :
               LET before == stores.rows[i].city
                   after == clean_stores.rows[i].city
               IN  /\ after \in {"Dubai", "Abu Dhabi", "Sharjah"}
                   /\ before \in DOMAIN CITY_MAPPING =>
                          after = CITY_MAPPING[before]
                   /\ before \in {"Dubai", "Abu Dhabi", "Sharjah"} =>
                          after = before
                   /\ before \notin DOMAIN CITY_MAPPING
                          \cup {"Dubai", "Abu Dhabi", "Sharjah"} =>
                          after = "Dubai"

\* A stores table with a key of the mapping and with a city the mapping
\* does not know.
C24_Witness ==
    /\ pc = "cleaned" /\ "cities" \in FixesRun
    /\ \E i, j \in 1..Len(stores.rows) :
           /\ stores.rows[i].city = "AD"
           /\ clean_stores.rows[i].city = "Abu Dhabi"
           /\ stores.rows[j].city = "Ajman"
           /\ clean_stores.rows[j].city = "Dubai"


\* A click that ran both stock fixes.
BothStockFixesRan ==
    pc = "cleaned" /\ {"negative_stock", "extreme_stock"} \subseteq FixesRun

\* The count a fix reported.
Reported(fix) ==
    (CHOOSE e \in {fixes_applied[i] : i \in 1..Len(fixes_applied)} :
         e.fix = fix).n

NegativeRows == SelectSeq(inventory.rows, LAMBDA r : RLt(r.stock_on_hand, Zero))
ExtremeRows ==
    SelectSeq(inventory.rows, LAMBDA r : RGt(r.stock_on_hand, Int2Rat(5000)))

\* The rows that were in range keep their value, and the two counts are
\* the numbers of rows below 0 and above 5000.
InRangeKeptAndCounted ==
    /\ Len(clean_inventory.rows) = Len(inventory.rows)
    /\ \A i \in 1..Len(inventory.rows) :
           LET before == inventory.rows[i].stock_on_hand
           IN  (RLe(Zero, before) /\ RLe(before, Int2Rat(5000))) =>
                   clean_inventory.rows[i].stock_on_hand = before
    /\ Reported("negative_stock") = Len(NegativeRows)
    /\ Reported("extreme_stock") = Len(ExtremeRows)

\* C25, as claimed: after both stock fixes every row of the cleaned inventory
\* table has 0 <= stock_on_hand <= 5000, the rows that were in that range
\* keep their value, and the reported counts are the numbers of rows that
\* were below 0 and above 5000.
C25_EveryStockInRange ==
    BothStockFixesRan =>
        /\ \A i \in 1..Len(clean_inventory.rows) :
               LET after == clean_inventory.rows[i].stock_on_hand
               IN  RLe(Zero, after) /\ RLe(after, Int2Rat(5000))
        /\ InRangeKeptAndCounted

\* C25, amended: after both stock fixes every row of the cleaned inventory
\* table that has a stock_on_hand has 0 <= stock_on_hand <= 5000 and a row
\* without one stays without; the rows that were in range keep their value
\* and the reported counts are the numbers of rows below 0 and above 5000.
C25_StockInRangeUnlessMissing ==
    BothStockFixesRan =>
        /\ Len(clean_inventory.rows) = Len(inventory.rows)
        /\ \A i \in 1..Len(clean_inventory.rows) :
               LET after == clean_inventory.rows[i].stock_on_hand
               IN  IF IsNull(inventory.rows[i].stock_on_hand)
                   THEN IsNull(after)
                   ELSE RLe(Zero, after) /\ RLe(after, Int2Rat(5000))
        /\ InRangeKeptAndCounted

\* A table with a negative stock and a stock above the cap, both fixed.
C25_Witness ==
    /\ BothStockFixesRan
    /\ Len(NegativeRows) = 1 /\ Len(ExtremeRows) = 1
    /\ \E i, j \in 1..Len(inventory.rows) :
           /\ inventory.rows[i].stock_on_hand = Int2Rat(-5)
           /\ clean_inventory.rows[i].stock_on_hand = Zero
           /\ inventory.rows[j].stock_on_hand = Int2Rat(12000)
           /\ clean_inventory.rows[j].stock_on_hand = Int2Rat(5000)


\* C26: in every cleaned inventory table each row's stock_status is the
\* status its fixed stock_on_hand and its reorder_point give by the
\* Critical/Low/Healthy rule, and its flags is_negative and is_extreme are
\* those of the fixed stock_on_hand.
C26_DerivedColumnsFollowFixedStock ==
    pc = "cleaned" =>
        \A i \in 1..Len(clean_inventory.rows) :
            LET r == clean_inventory.rows[i]
            IN  /\ r.stock_status =
                       stock_status_loaded(r.stock_on_hand, r.reorder_point)
                /\ r.is_negative = is_negative_of(r.stock_on_hand)
                /\ r.is_extreme = is_extreme_of(r.stock_on_hand)


\* ------------------------------------------------------- duplicate counts
\* Series.duplicated(): the cells whose value stands in an earlier cell;
\* missing values count as equal to one another.
duplicated(s) ==
    [i \in 1..Len(s) |-> \E j \in 1..(i - 1) : s[j] = s[i]]

\* Series.duplicated(keep=False): the cells whose value stands in another.
duplicated_keep_false(s) ==
    [i \in 1..Len(s) |-> \E j \in 1..Len(s) : j # i /\ s[j] = s[i]]

\* sum() of a boolean Series.
count_true(mask) == Cardinality({i \in 1..Len(mask) : mask[i]})

\* metrics['sales']['duplicate_orders'] of calculate_data_quality_metrics.
duplicate_orders(sales_df) ==
    count_true(duplicated(Col(sales_df.rows, "order_id")))

\* issues['duplicate_orders']['count'] of get_dirty_data_summary(df, 'sales').
get_dirty_data_summary(df) ==
    IF "order_id" \in df.cols
    THEN count_true(duplicated(Col(df.rows, "order_id")))
    ELSE 0

\* The three numbers of render_duplicates_analysis.
render_duplicates_analysis(sales_df) ==
    LET order_id == Col(sales_df.rows, "order_id")
        duplicate_mask == duplicated_keep_false(order_id)
        duplicates_df == [k \in 1..count_true(duplicate_mask) |->
                             sales_df.rows[
                                 CHOOSE i \in 1..Len(order_id) :
                                     /\ duplicate_mask[i]
                                     /\ Cardinality({j \in 1..i :
                                            duplicate_mask[j]}) = k]]
        unique_dup_orders == nunique(Col(duplicates_df, "order_id"))
        total_dup_records == Len(duplicates_df)
    IN  [unique_dup_orders |-> unique_dup_orders,
         total_dup_records |-> total_dup_records,
         records_to_remove |-> total_dup_records - unique_dup_orders]

\* The most sales rows of an upload of the duplicate counts.
MaxDuplicateSales == 3

\* Orders of two ids and orders whose order_id cell is empty.
DuplicateSaleRows ==
    {SalesRow(id, TimeText[1], "PROD_00001", "STORE_001", Int2Rat(2),
              Int2Rat(100), Int2Rat(10), "Paid", Int2Rat(0)) :
        id \in {"ORD_1", "ORD_2", NA}}

DuplicateUploads ==
    {[GoodFiles EXCEPT !.sales = File(EXPECTED_COLUMNS.sales, rows)] :
        rows \in SeqUpTo(DuplicateSaleRows, MaxDuplicateSales)}

InitDuplicates ==
    \E f \in DuplicateUploads, now \in Clock :
        LET result == load_and_process_data(f, now)
        IN  /\ products = result.products
            /\ stores = result.stores
            /\ sales = result.sales
            /\ inventory = result.inventory
            /\ campaigns = result.campaigns
            /\ error = result.error
            /\ uploaded = f
            /\ NoSession /\ NothingFiltered
            /\ NothingCleaned /\ NothingComputed
            /\ pc = "loaded"

NextDuplicates == ApplyFixes

SpecDuplicates == InitDuplicates /\ [][NextDuplicates]_<<vars, uploaded>>

\* C27: the number of rows the 'Remove duplicate orders' fix removes is
\* the duplicate count of calculate_data_quality_metrics and of
\* get_dirty_data_summary, and is 'Records to Remove' of
\* render_duplicates_analysis; after the fix the count is 0.
C27_DuplicateCountsAgree ==
    (pc = "cleaned" /\ "duplicates" \in FixesRun) =>
        /\ Reported("duplicates") = duplicate_orders(sales)
        /\ Reported("duplicates") = get_dirty_data_summary(sales)
        /\ Reported("duplicates") =
               render_duplicates_analysis(sales).records_to_remove
        /\ duplicate_orders(clean_sales) = 0
        /\ get_dirty_data_summary(clean_sales) = 0
        /\ render_duplicates_analysis(clean_sales).records_to_remove = 0


\* --------------------------------------------------------------------- main
\* The most calls of load_and_prepare_data the model counts.
MaxLoads == 2

\* The keys the 'Refresh Data' button leaves in the session: a mutant of
\* its list that forgets data_loaded.
refresh_keys_tables_only == TableKeys

\* The keys the 'Refresh Data' button deletes.
refresh_keys == TableKeys \cup {"data_loaded"}

nav_options == {"overview", "sales", "inventory", "campaigns", "stores",
                "time", "explorer", "about"}

\* load_and_prepare_data(): the five tables of one load, those of a run of
\* the generator.
load_and_prepare_data(d, today) ==
    LET data == generate_sample_data(d, today)
    IN  [sales_df |-> data.sales, products_df |-> data.products,
         stores_df |-> data.stores, inventory_df |-> data.inventory,
         campaigns_df |-> data.campaigns]

\* What a load can draw.
LoadDraws ==
    {[city_value |-> [c \in Range(CITIES) |-> c],
      days_ago |-> 0, store |-> CITIES[1], qty |-> qty, discount_pct |-> 0,
      corrupted |-> "keep", outlier |-> "none", duplicate |-> FALSE,
      stock |-> stock, reorder_point |-> 20] :
        qty \in {1, 3}, stock \in {-5, 15, 25, 9999}}

\* The session after the LOAD DATA block of main: the five tables and then
\* data_loaded are set when data_loaded is not in the session.
session_after_load(session, data) ==
    IF "data_loaded" \notin session.present
    THEN [present |-> session.present \cup TableKeys \cup {"data_loaded"},
          sales_df |-> data.sales_df, products_df |-> data.products_df,
          stores_df |-> data.stores_df, inventory_df |-> data.inventory_df,
          campaigns_df |-> data.campaigns_df]
    ELSE session

\* del st.session_state[key] for each key of the list that is in the session.
session_without(session, keys) ==
    [k \in DOMAIN session |->
        IF k = "present" THEN session.present \ keys
        ELSE IF k \in keys THEN None ELSE session[k]]

\* One run of main up to its sidebar: the load, then the five tables read
\* from the session into the locals.  Reading a key that is not in the
\* session raises AttributeError and ends the run.
RunToSidebar(session) ==
    IF TableKeys \subseteq session.present
    THEN /\ sales' = session.sales_df
         /\ products' = session.products_df
         /\ stores' = session.stores_df
         /\ inventory' = session.inventory_df
         /\ campaigns' = session.campaigns_df
         /\ error' = None
    ELSE /\ sales' = None /\ products' = None /\ stores' = None
         /\ inventory' = None /\ campaigns' = None
         /\ error' = "AttributeError"

\* The draws of a run: a run that finds data_loaded loads nothing.
DrawsOfRun ==
    IF "data_loaded" \in session_state.present
    THEN {<<CHOOSE d \in LoadDraws : TRUE, CHOOSE t \in GeneratorClock : TRUE>>}
    ELSE LoadDraws \X GeneratorClock

\* A run of main with some view picked: the first visit, a pick in the
\* navigation, or the run st.rerun() starts.  The view is rendered on the
\* tables read from the session.
PageRun ==
    /\ pc \in {"start", "rendered", "rerun"}
    /\ \E draw \in DrawsOfRun, tab \in nav_options :
        LET session == session_after_load(session_state,
                           load_and_prepare_data(draw[1], draw[2]))
        IN  /\ session_state' = session
            /\ loads' = IF "data_loaded" \in session_state.present THEN loads
                        ELSE IF loads < MaxLoads THEN loads + 1 ELSE loads
            /\ RunToSidebar(session)
            /\ selected_tab' = IF TableKeys \subseteq session.present
                               THEN tab ELSE None
            /\ pc' = IF TableKeys \subseteq session.present
                     THEN "rendered" ELSE "failed"
            /\ UNCHANGED <<clean_vars, result_vars, uploaded, filter_vars>>

\* A click on 'Refresh Data': the run reaches the button in the sidebar,
\* deletes the keys and calls st.rerun(), which ends the run before
\* anything of the page body is rendered.
RefreshData ==
    /\ pc = "rendered"
    /\ \E draw \in DrawsOfRun :
        LET session == session_after_load(session_state,
                           load_and_prepare_data(draw[1], draw[2]))
        IN  /\ session_state' = session_without(session, refresh_keys)
            /\ loads' = 0
            /\ sales' = None /\ products' = None /\ stores' = None
            /\ inventory' = None /\ campaigns' = None /\ error' = None
            /\ selected_tab' = None
            /\ pc' = "rerun"
            /\ UNCHANGED <<clean_vars, result_vars, uploaded, filter_vars>>

InitMain ==
    /\ products = None /\ stores = None /\ sales = None
    /\ inventory = None /\ campaigns = None /\ error = None
    /\ NothingCleaned /\ NothingComputed
    /\ uploaded = None
    /\ NoSession /\ NothingFiltered
    /\ pc = "start"

NextMain == PageRun \/ RefreshData

SpecMain == InitMain /\ [][NextMain]_<<vars, uploaded, main_vars, filter_vars>>

\* Whenever data_loaded is in the session the five tables are, at most one
\* load has run since the last refresh, and a rendered page shows the
\* tables of the session.
SessionConsistent ==
    /\ "data_loaded" \in session_state.present =>
           /\ TableKeys \subseteq session_state.present
           /\ \A k \in TableKeys : session_state[k] # None
    /\ loads <= 1
    /\ pc = "rendered" =>
           /\ "data_loaded" \in session_state.present
           /\ loads = 1
           /\ sales = session_state.sales_df
           /\ products = session_state.products_df
           /\ stores = session_state.stores_df
           /\ inventory = session_state.inventory_df
           /\ campaigns = session_state.campaigns_df

\* A refresh leaves none of the six keys and renders nothing, and the run
\* after it loads the five tables and then renders.
RefreshThenReload ==
    /\ (pc = "rendered" /\ pc' = "rerun") =>
           /\ session_state'.present = {}
           /\ selected_tab' = None
    /\ pc = "rerun" =>
           /\ pc' = "rendered"
           /\ loads' = 1
           /\ TableKeys \cup {"data_loaded"} \subseteq session_state'.present

\* C28: across the page runs and 'Refresh Data' clicks of main, whenever
\* data_loaded is in the session state the five tables are too, the data is
\* loaded at most once between two refreshes, and a refresh removes all six
\* keys, so that the next run loads the five tables again before it renders
\* anything.
C28_SessionProtocol ==
    []SessionConsistent /\ [][RefreshThenReload]_<<vars, uploaded, main_vars, filter_vars>>

\* A refresh has emptied a session that held the tables of a load.
C28_Witness ==
    /\ pc = "rerun"
    /\ session_state = EmptySession
    /\ loads = 0


\* ------------------------------------------------------ get_filtered_data
\* The five dimension filters in the order of the source, and the column
\* each is applied to.
dimensions == <<"city", "channel", "category", "brand", "payment_status">>

column_of(dimension) == IF dimension = "city" THEN "city_clean" ELSE dimension

\* One dimension filter that takes 'All' for a value like any other: a
\* mutant.
apply_dimension_literally(t, f, dimension) ==
    IF dimension \in DOMAIN f /\ f[dimension] # {}
    THEN [sales |-> SelectSeq(t.sales, LAMBDA r :
                        r[column_of(dimension)] \in f[dimension]),
          inventory |->
              IF dimension = "payment_status" THEN t.inventory
              ELSE SelectSeq(t.inventory, LAMBDA r :
                       r[column_of(dimension)] \in f[dimension])]
    ELSE t

\* One dimension filter on the two row sequences t: the rows whose column
\* isin the selection, when the key is in the dictionary, the selection is
\* not empty and 'All' is not in it.  payment_status filters the sales
\* only.
apply_dimension(t, f, dimension) ==
    IF /\ dimension \in DOMAIN f
       /\ f[dimension] # {}
       /\ "All" \notin f[dimension]
    THEN [sales |-> SelectSeq(t.sales, LAMBDA r :
                        r[column_of(dimension)] \in f[dimension]),
          inventory |->
              IF dimension = "payment_status" THEN t.inventory
              ELSE SelectSeq(t.inventory, LAMBDA r :
                       r[column_of(dimension)] \in f[dimension])]
    ELSE t

\* The dimension filters one after the other in this order.
RECURSIVE apply_dimensions(_, _, _)
apply_dimensions(t, f, order) ==
    IF order = <<>> THEN t
    ELSE apply_dimensions(apply_dimension(t, f, Head(order)), f, Tail(order))

\* start_dt <= time <= end_dt, with pd.to_datetime(date) the midnight the
\* date begins with; a comparison with NaT is False.
between_timestamps(time, date_range) ==
    /\ ~IsNull(time)
    /\ 2 * date_range.start_date <= time[1]
    /\ time[1] <= 2 * date_range.end_date

\* The date range filter: order_time of the sales and snapshot_date of the
\* inventory within the range, when there is a range with both its dates.
apply_date_range(t, f) ==
    IF "date_range" \in DOMAIN f /\ f.date_range # None
    THEN [sales |-> SelectSeq(t.sales, LAMBDA r :
                        between_timestamps(r.order_time, f.date_range)),
          inventory |-> SelectSeq(t.inventory, LAMBDA r :
                            between_timestamps(r.snapshot_date, f.date_range))]
    ELSE t

\* get_filtered_data(sales_df, inventory_df, filters): the two filtered
\* frames.
get_filtered_data(sales_df, inventory_df, f) ==
    LET t == apply_date_range(
                 apply_dimensions([sales |-> sales_df.rows,
                                   inventory |-> inventory_df.rows],
                                  f, dimensions), f)
    IN  [sales |-> DataFrame(sales_df.cols, t.sales),
         inventory |-> DataFrame(inventory_df.cols, t.inventory)]

\* The date range filter of render_sales_analysis on the rows with an
\* order_time: order_time.dt.date from start_date to end_date.
sales_analysis_date_filter(rows, date_range) ==
    SelectSeq(SelectSeq(rows, LAMBDA r : ~IsNull(r.order_time)),
              LAMBDA r : /\ days(r.order_time[1]) >= date_range.start_date
                         /\ days(r.order_time[1]) <= date_range.end_date)

\* The most sales rows of an upload the filters are tried on.
MaxFilterSales == 2

\* Orders of two stores, two products and two payment statuses, at midnight
\* and at noon of the first day, and an order without a time.
FilterSaleRows ==
    {SalesRow(x[1], x[2], x[3], x[4], Int2Rat(2), Int2Rat(100), Int2Rat(10),
              x[5], Int2Rat(0)) :
        x \in {<<"ORD_1", TimeText[1], "PROD_00001", "STORE_001", "Paid">>,
               <<"ORD_2", TimeText[2], "PROD_00002", "STORE_002", "Refunded">>,
               <<"ORD_4", "not_a_time", "PROD_00001", "STORE_001", "Paid">>}}

FilterUploads ==
    {[GoodFiles EXCEPT
         !.sales = File(EXPECTED_COLUMNS.sales, rows),
         !.inventory = File(EXPECTED_COLUMNS.inventory,
             <<InventoryRow(DateText[1], "PROD_00001", "STORE_001",
                            Int2Rat(15), Int2Rat(20), Int2Rat(7)),
               InventoryRow(DateText[2], "PROD_00002", "STORE_002",
                            Int2Rat(25), Int2Rat(20), Int2Rat(7))>>)] :
        rows \in SeqUpTo(FilterSaleRows, MaxFilterSales)}

\* The dictionaries of the model: city without its key, empty, 'All', one
\* city, and one city beside 'All'; the other dimensions 'All' or one
\* value; no date range, the first day, and the first two days.
NoKey == [k \in {} |-> {}]

Filters ==
    {city @@ [channel |-> channel, category |-> category, brand |-> brand,
              payment_status |-> payment_status, date_range |-> date_range] :
        city \in {NoKey, [city |-> {}], [city |-> {"All"}],
                  [city |-> {"Dubai"}], [city |-> {"All", "Dubai"}]},
        channel \in {{"All"}, {"App"}},
        category \in {{"All"}, {"Electronics"}},
        brand \in {{"All"}, {"Samsung"}},
        payment_status \in {{"All"}, {"Paid"}},
        date_range \in {None, [start_date |-> 0, end_date |-> 0],
                        [start_date |-> 0, end_date |-> 1]}}

InitFilter ==
    \E f \in FilterUploads, now \in Clock :
        LET result == load_and_process_data(f, now)
        IN  /\ products = result.products
            /\ stores = result.stores
            /\ sales = result.sales
            /\ inventory = result.inventory
            /\ campaigns = result.campaigns
            /\ error = result.error
            /\ uploaded = f
            /\ NothingCleaned /\ NothingComputed
            /\ NoSession /\ NothingFiltered
            /\ pc = "loaded"

\* A call of get_filtered_data on the loaded tables.
GetFilteredData ==
    /\ pc = "loaded"
    /\ error = None
    /\ \E f \in Filters :
        /\ filters' = f
        /\ filtered' = get_filtered_data(sales, inventory, f)
        /\ pc' = "filtered"
        /\ UNCHANGED <<source_vars, clean_vars, result_vars, uploaded,
                       main_vars>>

NextFilter == GetFilteredData

SpecFilter == InitFilter /\ [][NextFilter]_<<vars, uploaded, filter_vars>>

\* The sales rows the dimension filters of the call leave.
DimensionFiltered ==
    apply_dimensions([sales |-> sales.rows, inventory |-> inventory.rows],
                     filters, dimensions).sales

\* A time whose calendar date is from the start date to the end date.
between_dates(time, date_range) ==
    /\ ~IsNull(time)
    /\ date_range.start_date <= days(time[1])
    /\ days(time[1]) <= date_range.end_date

\* C29: with a date range, get_filtered_data keeps exactly the sales rows
\* with an order_time whose calendar date is from the start date to the end
\* date, whatever the time of day on the end date: the rows the date filter
\* of render_sales_analysis selects.
C29_DateRangeKeepsWholeEndDate ==
    (pc = "filtered" /\ filters.date_range # None) =>
        /\ filtered.sales.rows =
               SelectSeq(DimensionFiltered, LAMBDA r :
                   between_dates(r.order_time, filters.date_range))
        /\ filtered.sales.rows =
               sales_analysis_date_filter(DimensionFiltered,
                                          filters.date_range)


\* The orders the five dimension filters can be applied in.
Orders ==
    {order \in [1..Len(dimensions) -> Range(dimensions)] :
        \A i, j \in 1..Len(dimensions) : order[i] = order[j] => i = j}

\* s is t without some of its rows, the others in their order.
RECURSIVE IsSubSeq(_, _)
IsSubSeq(s, t) ==
    IF s = <<>> THEN TRUE
    ELSE IF t = <<>> THEN FALSE
    ELSE IF Head(s) = Head(t) THEN IsSubSeq(Tail(s), Tail(t))
    ELSE IsSubSeq(s, Tail(t))

\* The dimensions whose selection is in the dictionary, is not empty and has
\* no 'All'.
Selecting ==
    {d \in Range(dimensions) :
        d \in DOMAIN filters /\ filters[d] # {} /\ "All" \notin filters[d]}

\* What the call returns is made of rows of its input; a dimension that is
\* not selecting filters nothing; with no dimension selecting and no date
\* range the rows are those of the input; and the dimension filters give
\* the same rows in every order.
FilteredAsSelected ==
    pc = "filtered" =>
        /\ IsSubSeq(filtered.sales.rows, sales.rows)
        /\ IsSubSeq(filtered.inventory.rows, inventory.rows)
        /\ filtered.sales.cols = sales.cols
        /\ filtered.inventory.cols = inventory.cols
        /\ \A d \in Range(dimensions) \ Selecting :
               filtered =
                   get_filtered_data(sales, inventory,
                       [k \in DOMAIN filters \ {d} |-> filters[k]])
        /\ (Selecting = {} /\ filters.date_range = None) =>
               /\ filtered.sales.rows = sales.rows
               /\ filtered.inventory.rows = inventory.rows
        /\ LET t == [sales |-> sales.rows, inventory |-> inventory.rows]
               in_source_order == apply_dimensions(t, filters, dimensions)
           IN  /\ filtered.sales.rows =
                      apply_date_range(in_source_order, filters).sales
               /\ \A order \in Orders :
                      apply_dimensions(t, filters, order) = in_source_order

\* C30: get_filtered_data leaves its inputs unchanged and returns subsets
\* of them; a dimension whose selection is empty, absent or contains 'All'
\* filters nothing; with every dimension 'All' and no date range the outputs
\* have the rows of the inputs; and the result does not depend on the order
\* of the city, channel, category, brand and payment filters.
C30_FiltersSelectSubsets ==
    /\ []FilteredAsSelected
    /\ [][pc' = "filtered" => UNCHANGED source_vars]_<<vars, uploaded, filter_vars>>

\* A call with one city selected, the channel 'All', and no city key would
\* have been the same as 'All': one of two orders is left.
C30_Witness ==
    /\ pc = "filtered"
    /\ "city" \in DOMAIN filters
    /\ filters.city = {"Dubai"} /\ filters.channel = {"All"}
    /\ filters.date_range = None
    /\ Len(sales.rows) = 2
    /\ Len(filtered.sales.rows) = 1

=============================================================================
